---- MODULE Spec2Model ----
(***************************************************************************)
(* Connection-pooled query execution layer of richarai7/auto-pr:           *)
(*   - DatabaseManager / QueryMetrics  (python_database_manager.py)        *)
(*   - MySQLConnectionManager          (python_mysql_config.py)            *)
(* The pool itself (mysql.connector.pooling.MySQLConnectionPool) is the    *)
(* driver library: a FIFO queue of connections, get_connection() raising   *)
(* PoolError at once when the queue is empty, and close() of a pooled      *)
(* connection resetting the session (pool_reset_session) and re-queuing.   *)
(***************************************************************************)
EXTENDS Integers, Sequences, FiniteSets, TLC

\* ---------------------------------------------------------------- bounds
\* pool_size of the configuration the manager was built with
PoolSize == 2
\* number of concurrent callers (threads) of one manager
NCallers == 3
\* total number of get_connection scopes entered in one run of SpecPool
MaxCalls == 3

Callers == 1..NCallers
Conns == 1..PoolSize
\* `connection = None`: no connection bound
NoConn == 0

VARIABLES
  kind,               \* which manager class this instance is: "DM" or "MCM"
  is_connected,       \* DatabaseManager.is_connected
  pool_reset_session, \* config.pool_reset_session, handed to the pool
  idle,               \* the pool's queue of idle connections (FIFO)
  pending,            \* per connection: uncommitted effects of its session
  committed,          \* effects persisted in the database
  pc,                 \* per caller: position in its current call
  op,                 \* per caller: the operation in flight
  conn,               \* per caller: local variable `connection` of get_connection
  via,                \* per caller: which yield of get_connection the scope runs under
  result,             \* per caller: what the last call returned or raised
  stats,              \* MySQLConnectionManager.stats counters
  nCalls,             \* number of calls started so far
  exhInc,             \* per caller: pool_exhaustions increments made by the current call
  attempts,           \* per caller: pool.get_connection() invocations of the current call
  log,                \* per caller: what the current call did on its connection, in order
  callNo,             \* per caller: the number of its current call
  operations,         \* the operations list handed to execute_transaction
  idx,                \* per caller: operations of the list executed so far
  last_insert_id,     \* per caller: local variable of execute_transaction
  executed,           \* per caller: the parameters passed to cursor.execute, in order
  opFailed            \* numbers of the calls in which an operation raised Error

poolVars == <<kind, is_connected, pool_reset_session, idle, pending, committed,
              pc, op, conn, via, result, stats, nCalls, exhInc, attempts, log, callNo>>

txnVars == <<operations, idx, last_insert_id, executed, opFailed>>

VARIABLES
  total_queries,        \* QueryMetrics.total_queries
  slow_queries,         \* QueryMetrics.slow_queries
  errors,               \* QueryMetrics.errors
  total_execution_time, \* QueryMetrics.total_execution_time (seconds)
  query_history,        \* QueryMetrics.query_history
  lock,                 \* QueryMetrics.lock: the thread holding it, or NoThread
  mpc,                  \* per thread: position in record_query or get_stats
  arg,                  \* per thread: the arguments of its record_query call
  reg,                  \* per thread: the value loaded by the `+=` in progress
  snap,                 \* per thread: the dictionary get_stats is building
  nRecords,             \* number of record_query calls made
  nFailed,              \* number of them made with success=False
  views                 \* per thread: every state the counters have been in since its
                        \* get_stats call began

metricVars == <<total_queries, slow_queries, errors, total_execution_time, query_history,
                lock, mpc, arg, reg, snap, nRecords, nFailed, views>>

VARIABLES
  pool,                 \* DatabaseManager.pool: "None" or "Pool"
  reachable,            \* the database server accepts connections
  query,                \* per caller: the statement its execute_query call runs
  fetched               \* per caller: the value its execute_query call returned

queryVars == <<pool, reachable, query, fetched>>

VARIABLES
  db,                   \* DatabaseHealthChecker.db: "None", "open" or "closed"
  health_status,        \* DatabaseHealthChecker.health_status: overall and checks
  hpc,                  \* position of the health-check run
  perf_stats,           \* what db.get_performance_stats() returns to the checker
  exit_code             \* the argument of sys.exit in main

healthVars == <<db, health_status, hpc, perf_stats, exit_code>>

VARIABLES
  row,                  \* the summary row classify_segment is applied to
  customer_segment,     \* the label it returned
  epc,                  \* position of the run_daily_sales_summary_etl call
  df_daily,             \* number of rows the extract step returned (NoneVal: unbound)
  source_idle,          \* idle connections of source_pool
  target_idle,          \* idle connections of target_pool
  target_taken,         \* connections the current run took from target_pool
  load_calls,           \* calls of load_data in the current run
  written,              \* rows the current run sent to daily_sales_summary
  daily_sales_summary,  \* the target table: the runs (dates) with a committed row
  runs                  \* number of run_daily_sales_summary_etl calls so far

VARIABLES
  target_table,         \* the committed rows of the table an insert call writes to
  session,              \* the rows as the call's connection sees them (uncommitted)
  load,                 \* the insert call in flight: method, arguments, progress
  lpc,                  \* position of the insert call
  table_before,         \* the committed rows when the call began
  sent,                 \* the statements the call handed to the driver, in order
  last_sent             \* the last executemany of the previous call

loadVars == <<target_table, session, load, lpc, table_before, sent, last_sent>>

etlVars == <<row, customer_segment, epc, df_daily, source_idle, target_idle,
             target_taken, load_calls, written, daily_sales_summary, runs, loadVars>>

appVars == <<healthVars, etlVars>>

restVars == <<queryVars, appVars>>

vars == <<poolVars, txnVars, metricVars, restVars>>

Set(f, c, v) == [f EXCEPT ![c] = v]
Bump(s, k) == [s EXCEPT ![k] = @ + 1]

\* MySQLConnectionManager.__init__: the statistics dictionary
InitStats ==
  [connections_created |-> 0, connections_closed |-> 0, queries_executed |-> 0,
   query_errors |-> 0, pool_exhaustions |-> 0]

\* pooling.MySQLConnectionPool(pool_size=...): all connections idle, in order
FullPool == [i \in 1..PoolSize |-> i]

\* Outcomes of the body of a `with get_connection()` block:
\*   ok        the body finished normally
\*   Error     a driver Error that is not a PoolError, connection still alive
\*   ErrorLost a driver Error after which connection.is_connected() is False
\*   PoolError a pooling.PoolError raised in the body (e.g. by a nested acquisition)
\*   Other     any exception that is not a driver Error (ValueError, KeyError, ...)
BodyOutcomes == {"ok", "Error", "ErrorLost", "PoolError", "Other"}

\* Driver errors: mysql.connector.Error and its subclasses (PoolError is one)
DriverErrors == {"Error", "ErrorLost", "PoolError"}

\* connection.close() of a pooled connection: the session is reset when the pool
\* was built with pool_reset_session, and the connection is queued again.
\* p0: the uncommitted effects of the session as the caller left them.
PoolPut(k, p0) ==
  /\ idle' = Append(idle, k)
  /\ pending' = [pending EXCEPT ![k] = IF pool_reset_session THEN {} ELSE p0]

\* Python's None as a parameter value or as last_insert_id
NoneVal == -1

\* log entries: <<what, connection, operation index (0: none)>>
Ev(name, k) == <<name, k, 0>>
EvOp(name, k, i) == <<name, k, i>>

\* ---------------------------------------------------- QueryMetrics
NoThread == 0

\* the locals of a thread that is in no call
NoArg == [record |-> 0, execution_time |-> 0, success |-> TRUE]

\* `if len(self.query_history) > 100` (line 138)
HistoryCap == 100

\* self.slow_query_threshold = 1.0 (seconds)
SlowQueryThreshold == 1

\* a rate or an average as the quotient num / den it was computed as
Quot(num, den) == <<num, den>>
QuotEq(a, b) == a[1] * b[2] = b[1] * a[2]

Counters == [total_queries |-> total_queries, slow_queries |-> slow_queries,
             errors |-> errors, total_execution_time |-> total_execution_time]

EmptySnap == [total_queries |-> 0, slow_queries |-> 0, errors |-> 0,
              average_execution_time |-> Quot(0, 1), error_rate |-> Quot(0, 1),
              slow_query_rate |-> Quot(0, 1)]

\* QueryMetrics.__init__ (lines 108-115)
InitQueryMetrics ==
  /\ total_queries = 0
  /\ slow_queries = 0
  /\ errors = 0
  /\ total_execution_time = 0
  /\ query_history = <<>>
  /\ lock = NoThread
  /\ mpc = [t \in Callers |-> <<"idle", "">>]
  /\ arg = [t \in Callers |-> NoArg]
  /\ reg = [t \in Callers |-> 0]
  /\ snap = [t \in Callers |-> EmptySnap]
  /\ nRecords = 0
  /\ nFailed = 0
  /\ views = [t \in Callers |-> {}]

\* The managers as their callers get them: the pool built and full, the
\* statistics zero.  DatabaseManager.is_connected is False after __init__ and
\* True only once line 227 has run.  workloads: the operations lists tried.
InitManagers(kinds, workloads) ==
  /\ kind \in kinds
  /\ is_connected \in (IF kind = "DM" THEN BOOLEAN ELSE {TRUE})
  /\ pool_reset_session \in BOOLEAN
  /\ idle = FullPool
  /\ pending = [k \in Conns |-> {}]
  /\ committed = {}
  /\ pc = [c \in Callers |-> "idle"]
  /\ op = [c \in Callers |-> "none"]
  /\ conn = [c \in Callers |-> NoConn]
  /\ via = [c \in Callers |-> "none"]
  /\ result = [c \in Callers |-> "none"]
  /\ stats = InitStats
  /\ nCalls = 0
  /\ exhInc = [c \in Callers |-> 0]
  /\ attempts = [c \in Callers |-> 0]
  /\ log = [c \in Callers |-> <<>>]
  /\ callNo = [c \in Callers |-> 0]
  /\ operations \in workloads
  /\ idx = [c \in Callers |-> 0]
  /\ last_insert_id = [c \in Callers |-> NoneVal]
  /\ executed = [c \in Callers |-> <<>>]
  /\ opFailed = {}

\* no execute_query call made yet; DatabaseManager.pool counts as built where
\* the manager is taken as initialized
NoQuery == [kind |-> "none", rows |-> <<>>, fetch |-> "all"]

InitDatabaseQuery ==
  /\ pool = "Pool"
  /\ reachable = TRUE
  /\ query = [c \in Callers |-> NoQuery]
  /\ fetched = [c \in Callers |-> NoneVal]

\* DatabaseHealthChecker.__init__ (lines 28-36)
InitHealthChecker ==
  /\ db = "None"
  /\ health_status = [overall |-> "healthy", checks |-> <<>>]
  /\ hpc = "start"
  /\ perf_stats = [error_rate |-> 0, slow_query_rate |-> 0]
  /\ exit_code = NoneVal

\* pool_size of the ETL pipeline's source and target pools (_get_default_config)
SourcePoolSize == 5

TargetPoolSize == 3

NoRow == [total_orders |-> 0, days_since_last_order |-> 0, total_spent |-> 0]

\* MySQLETLPipeline after initialize_connections (lines 96-134), no run started
\* a statement text: the verb, the table and column names, the VALUES list
\* and the ON DUPLICATE KEY UPDATE list
NoText == [verb |-> "none", table |-> "", columns |-> <<>>, values |-> <<>>,
           on_duplicate |-> <<>>]

\* no executemany made yet
NoSent == [text |-> NoText, first |-> <<>>]

\* no insert call made yet on an empty table
InitLoadIdle ==
  /\ target_table = {}
  /\ session = {}
  /\ load = [impl |-> "none", method |-> "none", batch_size |-> 0, rows |-> <<>>,
             i |-> 0, retry |-> FALSE, failed |-> "none"]
  /\ lpc = "idle"
  /\ table_before = {}
  /\ sent = <<>>
  /\ last_sent = NoSent

InitPipeline ==
  /\ InitLoadIdle
  /\ customer_segment = "none"
  /\ epc = "idle"
  /\ df_daily = NoneVal
  /\ source_idle = SourcePoolSize
  /\ target_idle = TargetPoolSize
  /\ target_taken = 0
  /\ load_calls = 0
  /\ written = 0
  /\ daily_sales_summary = {}
  /\ runs = 0

InitETL == row = NoRow /\ InitPipeline

\* the parts of the repository a specification leaves at rest
InitRest == InitDatabaseQuery /\ InitHealthChecker /\ InitETL

InitPool == InitManagers({"DM", "MCM"}, {<<>>}) /\ InitQueryMetrics /\ InitRest

\* ------------------------------------------- MySQLConnectionManager
\* `connection = self.connection_pool.get_connection()` on a non-empty pool:
\* the head of the queue leaves the pool and is bound to `connection`
PoolGet_cached(c) ==
  /\ conn' = Set(conn, c, Head(idle))
  /\ idle' = idle

PoolGet(c) ==
  /\ conn' = Set(conn, c, Head(idle))
  /\ idle' = Tail(idle)

\* `except pooling.PoolError:` up to the sleep (lines 158-162)
\* before: the increments the current call has made so far
MCM_pool_exhausted_uncounted(c, before) ==
  /\ stats' = stats
  /\ exhInc' = Set(exhInc, c, before)
  /\ pc' = Set(pc, c, "backoff")

MCM_pool_exhausted(c, before) ==
  /\ stats' = Bump(stats, "pool_exhaustions")
  /\ exhInc' = Set(exhInc, c, before + 1)
  /\ pc' = Set(pc, c, "backoff")

\* get_connection, first attempt (lines 152-156) and, when the pool is
\* exhausted, the start of the PoolError handler (lines 158-162)
MCM_get_connection(c, o) ==
  /\ kind = "MCM" /\ pc[c] = "idle" /\ nCalls < MaxCalls
  /\ nCalls' = nCalls + 1
  /\ callNo' = Set(callNo, c, nCalls + 1)
  /\ op' = Set(op, c, o)
  /\ attempts' = Set(attempts, c, 1)
  /\ result' = Set(result, c, "none")
  /\ log' = Set(log, c, <<>>)
  /\ IF idle # <<>>
       THEN /\ PoolGet(c)
            /\ stats' = Bump(stats, "connections_created")
            /\ via' = Set(via, c, "first")
            /\ pc' = Set(pc, c, "body")
            /\ exhInc' = Set(exhInc, c, 0)
       ELSE /\ MCM_pool_exhausted(c, 0)
            /\ via' = Set(via, c, "none")
            /\ UNCHANGED <<conn, idle>>
  /\ UNCHANGED <<kind, is_connected, pool_reset_session, pending, committed>>

\* get_connection, the retry after time.sleep(0.1) (lines 163-165), and the
\* finally clause (lines 173-176) when the retry raises or the generator is closed
MCM_retry(c) ==
  /\ kind = "MCM" /\ pc[c] = "backoff"
  /\ attempts' = Set(attempts, c, attempts[c] + 1)
  /\ IF idle # <<>>
       THEN IF conn[c] = NoConn
              THEN \* the scope opens at the second yield
                   /\ PoolGet(c)
                   /\ stats' = Bump(stats, "connections_created")
                   /\ via' = Set(via, c, "retry")
                   /\ pc' = Set(pc, c, "body")
                   /\ UNCHANGED <<pending, result, log>>
              ELSE \* the PoolError came out of the body: `connection` is rebound and
                   \* the first connection is dropped unreleased; the generator yields
                   \* a second time, contextlib raises RuntimeError and closes the
                   \* generator, whose finally clause closes the second connection
                   /\ idle' = Append(Tail(idle), Head(idle))
                   /\ pending' = [pending EXCEPT ![Head(idle)] =
                                    IF pool_reset_session THEN {} ELSE @]
                   /\ stats' = Bump(Bump(stats, "connections_created"), "connections_closed")
                   /\ conn' = Set(conn, c, NoConn)
                   /\ via' = Set(via, c, "none")
                   /\ pc' = Set(pc, c, "idle")
                   /\ result' = Set(result, c, "RuntimeError")
                   /\ log' = Set(log, c, log[c] \o <<Ev("dropped", conn[c]),
                                                     Ev("release", Head(idle))>>)
       ELSE \* PoolError leaves the handler; finally closes `connection` if bound
            /\ IF conn[c] # NoConn
                 THEN /\ PoolPut(conn[c], pending[conn[c]])
                      /\ stats' = Bump(stats, "connections_closed")
                      /\ log' = Set(log, c, Append(log[c], Ev("release", conn[c])))
                 ELSE UNCHANGED <<idle, pending, stats, log>>
            /\ conn' = Set(conn, c, NoConn)
            /\ via' = Set(via, c, "none")
            /\ pc' = Set(pc, c, "idle")
            /\ result' = Set(result, c, "PoolError")
  /\ UNCHANGED <<kind, is_connected, pool_reset_session, committed, op, nCalls, callNo, exhInc>>

\* get_connection from the yield on: exception exc ("ok": none) arrives from the
\* body; the except clauses (lines 158-171) and the finally clause (173-176).
\* res: what the caller of the operation receives once the scope is left;
\* s0, l0, p0: stats, log and the session's uncommitted effects as the body
\* left them.
MCM_exit(c, exc, res, s0, l0, p0) ==
  IF via[c] = "first" /\ exc = "PoolError"
    THEN \* line 158 also catches a PoolError thrown in at the yield
         /\ MCM_pool_exhausted(c, exhInc[c])
         /\ UNCHANGED <<idle, pending, conn, via, result, log>>
    ELSE LET s1 == IF via[c] = "first" /\ exc \in {"Error", "ErrorLost"}
                     THEN Bump(s0, "query_errors") ELSE s0
         IN /\ IF exc # "ErrorLost"     \* connection.is_connected()
                 THEN /\ PoolPut(conn[c], p0)
                      /\ stats' = Bump(s1, "connections_closed")
                      /\ log' = Set(log, c, Append(l0, Ev("release", conn[c])))
                 ELSE /\ stats' = s1
                      /\ log' = Set(log, c, Append(l0, Ev("dropped", conn[c])))
                      /\ UNCHANGED <<idle, pending>>
            /\ conn' = Set(conn, c, NoConn)
            /\ via' = Set(via, c, "none")
            /\ pc' = Set(pc, c, "idle")
            /\ result' = Set(result, c, res)
            /\ UNCHANGED exhInc

\* a caller's own `with manager.get_connection() as conn:` block ends
MCM_scope(c, out) ==
  /\ kind = "MCM" /\ pc[c] = "body" /\ op[c] = "scope"
  /\ MCM_exit(c, out, out, stats, log[c], pending[conn[c]])
  /\ UNCHANGED <<kind, is_connected, pool_reset_session, committed, op, nCalls, callNo,
                 attempts>>

\* ------------------------------------------------- DatabaseManager
\* where a caller continues once its get_connection scope is left: in the
\* finally clause of execute_query (lines 316-318), in initialize after
\* _test_connection (lines 225-232), or back in its own code
Return(o) ==
  CASE o = "query" -> "query_finally"
    [] o = "probe" -> "init_return"
    [] OTHER -> "idle"

\* get_connection up to the yield (lines 252-267); when the acquisition or an
\* audit SET statement raises, also the except and finally clauses (269-276).
\* auditOk: the four SET @audit_* statements all succeed.
DM_get_connection(c, o, auditOk) ==
  /\ kind = "DM" /\ pc[c] = "idle" /\ nCalls < MaxCalls
  /\ nCalls' = nCalls + 1
  /\ callNo' = Set(callNo, c, nCalls + 1)
  /\ op' = Set(op, c, o)
  /\ via' = Set(via, c, "none")
  /\ log' = Set(log, c, IF is_connected /\ idle # <<>> /\ ~auditOk
                          THEN <<Ev("rollback", Head(idle)), Ev("release", Head(idle))>>
                          ELSE <<>>)
  /\ IF ~is_connected
       THEN \* line 253: RuntimeError, which no `except Error` catches
            /\ attempts' = Set(attempts, c, 0)
            /\ result' = Set(result, c, "RuntimeError")
            /\ pc' = Set(pc, c, Return(o))
            /\ UNCHANGED <<idle, pending, conn>>
       ELSE /\ attempts' = Set(attempts, c, 1)
            /\ IF idle = <<>>
                 THEN \* PoolError from line 257; `connection` is None at 270 and 275
                      /\ conn' = Set(conn, c, NoConn)
                      /\ IF o = "txn"
                           THEN /\ pc' = Set(pc, c, "txn_except")
                                /\ result' = Set(result, c, "none")
                           ELSE /\ pc' = Set(pc, c, Return(o))
                                /\ result' = Set(result, c, "PoolError")
                      /\ UNCHANGED <<idle, pending>>
                 ELSE IF auditOk
                   THEN /\ PoolGet(c)
                        /\ pc' = Set(pc, c, "body")
                        /\ result' = Set(result, c, "none")
                        /\ UNCHANGED pending
                   ELSE \* an audit statement raised Error: rollback, raise, close;
                        \* the with statement of the caller never bound its target
                        /\ idle' = Append(Tail(idle), Head(idle))
                        /\ pending' = [pending EXCEPT ![Head(idle)] = {}]
                        /\ conn' = Set(conn, c, NoConn)
                        /\ IF o = "txn"
                             THEN /\ pc' = Set(pc, c, "txn_except")
                                  /\ result' = Set(result, c, "none")
                             ELSE /\ pc' = Set(pc, c, Return(o))
                                  /\ result' = Set(result, c, "Error")
  /\ UNCHANGED <<kind, is_connected, pool_reset_session, committed, stats, exhInc>>

\* get_connection from the yield on: exception exc ("ok": none) arrives from the
\* body; except Error (lines 269-273) rolls back, finally (274-276) closes.
\* A driver Error leaving the scope opened by execute_transaction lands in that
\* method's own handler (line 366), where `connection` is still bound.
\* res: what the caller receives once the scope is left; l0, p0: the log and
\* the session's uncommitted effects as the body left them.
DM_exit(c, exc, res, l0, p0) ==
  /\ PoolPut(conn[c], IF exc \in DriverErrors THEN {} ELSE p0)
  /\ log' = Set(log, c, l0
                 \o (IF exc \in DriverErrors THEN <<Ev("rollback", conn[c])>> ELSE <<>>)
                 \o <<Ev("release", conn[c])>>)
  /\ IF op[c] = "txn" /\ exc \in DriverErrors
       THEN /\ pc' = Set(pc, c, "txn_except")
            /\ UNCHANGED <<conn, result>>
       ELSE /\ pc' = Set(pc, c, Return(op[c]))
            /\ conn' = Set(conn, c, NoConn)
            /\ result' = Set(result, c, res)
  /\ UNCHANGED <<stats, exhInc, via>>

\* a caller's own `with manager.get_connection() as connection:` block ends
DM_scope(c, out) ==
  /\ kind = "DM" /\ pc[c] = "body" /\ op[c] = "scope"
  /\ DM_exit(c, out, out, log[c], pending[conn[c]])
  /\ UNCHANGED <<kind, is_connected, pool_reset_session, committed, op, nCalls, callNo,
                 attempts>>

\* ------------------------------------------------ specification: pool
NextPool ==
  \E c \in Callers :
    \/ MCM_get_connection(c, "scope") /\ UNCHANGED <<txnVars, metricVars, restVars>>
    \/ MCM_retry(c) /\ UNCHANGED <<txnVars, metricVars, restVars>>
    \/ \E out \in BodyOutcomes : MCM_scope(c, out) /\ UNCHANGED <<txnVars, metricVars, restVars>>
    \/ \E auditOk \in BOOLEAN : DM_get_connection(c, "scope", auditOk) /\ UNCHANGED <<txnVars, metricVars, restVars>>
    \/ \E out \in BodyOutcomes : DM_scope(c, out) /\ UNCHANGED <<txnVars, metricVars, restVars>>

SpecPool == InitPool /\ [][NextPool]_vars

\* ------------------------------------------------------ claims: pool
Range(q) == {q[i] : i \in DOMAIN q}

\* the caller is inside a get_connection scope: its body runs, or it sleeps in
\* the PoolError handler with the scope's connection still bound
ScopeOpen(c) == pc[c] = "body" \/ (pc[c] = "backoff" /\ conn[c] # NoConn)

\* C1: no connection is held by two callers at the same time, and a connection
\* held by a caller is not in the pool's idle queue (so it cannot be handed to
\* another caller) until that caller's scope has exited.
C1_ExclusiveLease ==
  /\ \A c1, c2 \in Callers :
       (c1 # c2 /\ ScopeOpen(c1) /\ ScopeOpen(c2)) => conn[c1] # conn[c2]
  /\ \A c \in Callers : ScopeOpen(c) => conn[c] \notin Range(idle)

\* two scopes are open at once, one of them on a connection that another
\* caller held and released before
C1_Witness ==
  \E c1, c2, c3 \in Callers :
    /\ c1 # c2 /\ c3 # c1 /\ c3 # c2
    /\ pc[c1] = "body" /\ pc[c2] = "body"
    /\ pc[c3] = "idle" /\ log[c3] = <<Ev("release", conn[c1])>>

\* C2: every get_connection scope releases its connection on every exit path:
\* whenever no scope is open (every caller is between calls), no connection is
\* leased, i.e. the pool's idle queue holds all pool_size connections.
C2_ReleasedOnEveryExit ==
  (\A c \in Callers : pc[c] = "idle") => Len(idle) = PoolSize

\* C3: a MySQLConnectionManager.get_connection call that finds the pool
\* exhausted retries exactly once; when the retry also finds no connection the
\* call fails with PoolError having incremented pool_exhaustions exactly once.
\* No call invokes the pool more than twice.
C3_RetryOnceCountOnce ==
  \A c \in Callers :
    kind = "MCM" =>
      /\ attempts[c] <= 2
      /\ (pc[c] = "idle" /\ result[c] = "PoolError" /\ log[c] = <<>>)
           => (attempts[c] = 2 /\ exhInc[c] = 1)

\* a call failed with PoolError without ever holding a connection
C3_Witness ==
  \E c \in Callers :
    /\ kind = "MCM" /\ pc[c] = "idle" /\ result[c] = "PoolError"
    /\ log[c] = <<>> /\ attempts[c] = 2 /\ stats.pool_exhaustions >= 1

\* --------------------------------------------- execute_transaction
\* operations lists: each operation has its params tuple and the lastrowid
\* the cursor shows once it has executed (0: the statement generated no id)
MaxOps == 3

Workloads(alphabet) == UNION {[1..n -> alphabet] : n \in 0..MaxOps}

\* lists of INSERTs without placeholder, each generating id 7
TxnWorkloads == Workloads({[params |-> <<5>>, lastrowid |-> 7]})

\* with and without a None placeholder; generating no id, id 7 or id 9
SubstWorkloads ==
  Workloads([params : {<<NoneVal, 5>>, <<5>>}, lastrowid : {0, 7, 9}])

\* the per-call locals of execute_transaction, as a call starts
TxnReset(c) ==
  /\ idx' = Set(idx, c, 0)
  /\ last_insert_id' = Set(last_insert_id, c, NoneVal)
  /\ executed' = Set(executed, c, <<>>)
  /\ UNCHANGED <<operations, opFailed>>

\* MySQLConnectionManager.execute_transaction, lines 287-292: every None
\* parameter becomes last_insert_id once that is not None
Substitute_first_only(params, lid) ==
  IF Len(params) > 0 /\ lid # NoneVal
    THEN [j \in 1..Len(params) |-> IF j = 1 /\ params[j] = NoneVal THEN lid ELSE params[j]]
    ELSE params

Substitute_as_given(params, lid) == params

Substitute(params, lid) ==
  IF Len(params) > 0 /\ lid # NoneVal
    THEN [j \in 1..Len(params) |-> IF params[j] = NoneVal THEN lid ELSE params[j]]
    ELSE params

\* lines 296-298: `if cursor.lastrowid: last_insert_id = cursor.lastrowid`
StoreLastId_first_wins(lid, lastrowid) ==
  IF lastrowid # 0 /\ lid = NoneVal THEN lastrowid ELSE lid

StoreLastId(lid, lastrowid) == IF lastrowid # 0 THEN lastrowid ELSE lid

\* `for operation in operations:` has run through the whole list, so that the
\* statement after the loop (the commit) is reached
TxnLoopDone_inside_loop(c) == idx[c] >= 1 \/ Len(operations) = 0

TxnLoopDone(c) == idx[c] = Len(operations)

\* MySQLConnectionManager.execute_transaction, `except Error` (lines 305-310),
\* `finally` (313) and the normal exit of the get_connection scope:
\* rollback, count the error, return False, release.  evs: what the failing
\* statement logged.
MCM_txn_fail_no_rollback(c, evs) ==
  MCM_exit(c, "ok", "False", Bump(stats, "query_errors"), log[c] \o evs, pending[conn[c]])

MCM_txn_fail(c, evs) ==
  MCM_exit(c, "ok", "False", Bump(stats, "query_errors"),
           log[c] \o evs \o <<Ev("rollback", conn[c])>>, {})

\* lines 274-281: cursor, start_transaction(), last_insert_id = None.
\* start_transaction raises ProgrammingError when the session already has a
\* transaction in progress.
MCM_txn_start(c) ==
  /\ kind = "MCM" /\ pc[c] = "body" /\ op[c] = "txn"
  /\ IF pending[conn[c]] # {}
       THEN MCM_txn_fail(c, <<>>)
       ELSE /\ pc' = Set(pc, c, "txn_loop")
            /\ log' = Set(log, c, Append(log[c], Ev("start", conn[c])))
            /\ UNCHANGED <<idle, pending, conn, via, result, stats, exhInc>>
  /\ UNCHANGED <<kind, is_connected, pool_reset_session, committed, op, nCalls, callNo,
                 attempts, txnVars>>

\* one turn of the for loop (lines 283-298); fails: cursor.execute raises Error
MCM_txn_execute(c, fails) ==
  /\ kind = "MCM" /\ pc[c] = "txn_loop" /\ idx[c] < Len(operations)
  /\ LET i == idx[c] + 1
         k == conn[c]
         params == Substitute(operations[i].params, last_insert_id[c])
     IN /\ executed' = Set(executed, c, Append(executed[c], params))
        /\ IF fails
             THEN /\ opFailed' = opFailed \cup {callNo[c]}
                  /\ MCM_txn_fail(c, <<EvOp("fail", k, i)>>)
                  /\ UNCHANGED <<idx, last_insert_id>>
             ELSE /\ pending' = [pending EXCEPT ![k] = @ \cup {<<callNo[c], i>>}]
                  /\ idx' = Set(idx, c, i)
                  /\ last_insert_id' = Set(last_insert_id, c,
                                           StoreLastId(last_insert_id[c], operations[i].lastrowid))
                  /\ log' = Set(log, c, Append(log[c], EvOp("exec", k, i)))
                  /\ UNCHANGED <<idle, conn, via, pc, result, stats, exhInc, opFailed>>
  /\ UNCHANGED <<kind, is_connected, pool_reset_session, committed, op, nCalls, callNo,
                 attempts, operations>>

\* after the loop: connection.commit(), return True (lines 300-303), finally,
\* release; fails: commit raises Error
MCM_txn_commit(c, fails) ==
  /\ kind = "MCM" /\ pc[c] = "txn_loop" /\ TxnLoopDone(c)
  /\ IF fails
       THEN /\ MCM_txn_fail(c, <<Ev("commit", conn[c])>>)
            /\ UNCHANGED committed
       ELSE /\ committed' = committed \cup pending[conn[c]]
            /\ MCM_exit(c, "ok", "True", stats, Append(log[c], Ev("commit", conn[c])), {})
  /\ UNCHANGED <<kind, is_connected, pool_reset_session, op, nCalls, callNo, attempts,
                 txnVars>>

\* DatabaseManager.execute_transaction, lines 336-340
DM_txn_start(c) ==
  /\ kind = "DM" /\ pc[c] = "body" /\ op[c] = "txn"
  /\ IF pending[conn[c]] # {}
       THEN DM_exit(c, "Error", "Error", log[c], pending[conn[c]])
       ELSE /\ pc' = Set(pc, c, "txn_loop")
            /\ log' = Set(log, c, Append(log[c], Ev("start", conn[c])))
            /\ UNCHANGED <<idle, pending, conn, via, result, stats, exhInc>>
  /\ UNCHANGED <<kind, is_connected, pool_reset_session, committed, op, nCalls, callNo,
                 attempts, txnVars>>

\* one turn of the for loop (lines 342-358); fails: cursor.execute raises Error,
\* which leaves the with block through get_connection's handlers
DM_txn_execute(c, fails) ==
  /\ kind = "DM" /\ pc[c] = "txn_loop" /\ idx[c] < Len(operations)
  /\ LET i == idx[c] + 1
         k == conn[c]
     IN /\ executed' = Set(executed, c, Append(executed[c], operations[i].params))
        /\ IF fails
             THEN /\ opFailed' = opFailed \cup {callNo[c]}
                  /\ DM_exit(c, "Error", "Error", Append(log[c], EvOp("fail", k, i)),
                             pending[k])
                  /\ UNCHANGED idx
             ELSE /\ pending' = [pending EXCEPT ![k] = @ \cup {<<callNo[c], i>>}]
                  /\ idx' = Set(idx, c, i)
                  /\ log' = Set(log, c, Append(log[c], EvOp("exec", k, i)))
                  /\ UNCHANGED <<idle, conn, via, pc, result, stats, exhInc, opFailed>>
  /\ UNCHANGED <<kind, is_connected, pool_reset_session, committed, op, nCalls, callNo,
                 attempts, operations, last_insert_id>>

\* after the loop: connection.commit() (lines 360-364), the scope exits and the
\* summary is returned (371-377); fails: commit raises Error
DM_txn_commit(c, fails) ==
  /\ kind = "DM" /\ pc[c] = "txn_loop" /\ TxnLoopDone(c)
  /\ IF fails
       THEN /\ DM_exit(c, "Error", "Error", Append(log[c], Ev("commit", conn[c])),
                       pending[conn[c]])
            /\ UNCHANGED committed
       ELSE /\ committed' = committed \cup pending[conn[c]]
            /\ DM_exit(c, "ok", "Summary", Append(log[c], Ev("commit", conn[c])), {})
  /\ UNCHANGED <<kind, is_connected, pool_reset_session, op, nCalls, callNo, attempts,
                 txnVars>>

\* `except Error as e: connection.rollback()` (lines 366-369), reached after the
\* with block, get_connection's finally clause included, has been left.
\* `connection` is unbound when the with statement never bound it
\* (UnboundLocalError); otherwise it is the pooled connection that close() has
\* already handed back, and the call on it raises AttributeError.
DM_txn_except(c) ==
  /\ kind = "DM" /\ pc[c] = "txn_except"
  /\ IF conn[c] = NoConn
       THEN /\ result' = Set(result, c, "UnboundLocalError")
            /\ UNCHANGED log
       ELSE /\ result' = Set(result, c, "AttributeError")
            /\ log' = Set(log, c, Append(log[c], Ev("rollback", conn[c])))
  /\ conn' = Set(conn, c, NoConn)
  /\ pc' = Set(pc, c, "idle")
  /\ UNCHANGED <<kind, is_connected, pool_reset_session, idle, pending, committed, op,
                 via, stats, nCalls, exhInc, attempts, callNo, txnVars>>

\* ---------------------------------------- specification: transactions
InitTxn == InitManagers({"DM", "MCM"}, TxnWorkloads) /\ InitQueryMetrics /\ InitRest

\* the callers that run transactions, and the one that uses plain scopes
TxnCallers == {1, 2}
ScopeCallers == {3}

NextTxn ==
  \/ \E c \in TxnCallers :
       \/ MCM_get_connection(c, "txn") /\ TxnReset(c) /\ UNCHANGED <<metricVars, restVars>>
       \/ MCM_txn_start(c) /\ UNCHANGED <<metricVars, restVars>>
       \/ \E fails \in BOOLEAN : MCM_txn_execute(c, fails) /\ UNCHANGED <<metricVars, restVars>>
       \/ \E fails \in BOOLEAN : MCM_txn_commit(c, fails) /\ UNCHANGED <<metricVars, restVars>>
       \/ \E auditOk \in BOOLEAN :
            DM_get_connection(c, "txn", auditOk) /\ TxnReset(c) /\ UNCHANGED <<metricVars, restVars>>
       \/ DM_txn_start(c) /\ UNCHANGED <<metricVars, restVars>>
       \/ \E fails \in BOOLEAN : DM_txn_execute(c, fails) /\ UNCHANGED <<metricVars, restVars>>
       \/ \E fails \in BOOLEAN : DM_txn_commit(c, fails) /\ UNCHANGED <<metricVars, restVars>>
       \/ DM_txn_except(c) /\ UNCHANGED <<metricVars, restVars>>
  \/ \E c \in Callers : MCM_retry(c) /\ UNCHANGED <<txnVars, metricVars, restVars>>
  \/ \E c \in ScopeCallers :
       \/ MCM_get_connection(c, "scope") /\ UNCHANGED <<txnVars, metricVars, restVars>>
       \/ MCM_scope(c, "ok") /\ UNCHANGED <<txnVars, metricVars, restVars>>
       \/ DM_get_connection(c, "scope", TRUE) /\ UNCHANGED <<txnVars, metricVars, restVars>>
       \/ DM_scope(c, "ok") /\ UNCHANGED <<txnVars, metricVars, restVars>>

SpecTxn == InitTxn /\ [][NextTxn]_vars

\* one caller, every shape of operations list
InitSubst == InitManagers({"MCM"}, SubstWorkloads) /\ InitQueryMetrics /\ InitRest

NextSubst ==
  \/ MCM_get_connection(1, "txn") /\ TxnReset(1) /\ UNCHANGED <<metricVars, restVars>>
  \/ MCM_txn_start(1) /\ UNCHANGED <<metricVars, restVars>>
  \/ \E fails \in BOOLEAN : MCM_txn_execute(1, fails) /\ UNCHANGED <<metricVars, restVars>>
  \/ \E fails \in BOOLEAN : MCM_txn_commit(1, fails) /\ UNCHANGED <<metricVars, restVars>>

SpecSubst == InitSubst /\ [][NextSubst]_vars

\* ---------------------------------------------- claims: transactions
What(e) == e[1]
OnConn(e) == e[2]
OpIndex(e) == e[3]
Positions(c, names) == {j \in DOMAIN log[c] : What(log[c][j]) \in names}

\* C4: execute_transaction is all-or-nothing: when an operation of a call
\* raised Error, no effect of that call is ever persisted or left uncommitted on
\* a pooled connection, and commit is never invoked for that call.
C4_AllOrNothing ==
  /\ \A t \in committed : t[1] \notin opFailed
  /\ \A k \in Range(idle) : \A t \in pending[k] : t[1] \notin opFailed
  /\ \A c \in Callers :
       (op[c] = "txn" /\ callNo[c] \in opFailed) => Positions(c, {"commit"}) = {}

\* a call whose third operation failed after two had executed has returned,
\* while another call has committed
C4_Witness ==
  \E c \in Callers :
    /\ pc[c] = "idle" /\ op[c] = "txn" /\ callNo[c] \in opFailed /\ idx[c] = 2
    /\ committed # {}

\* C5: the connection stays leased to the transaction until its commit or
\* rollback has completed: a call issues no commit and no rollback on its
\* connection after it has released that connection to the pool.
C5_NoUseAfterRelease ==
  \A c \in Callers :
    \A i, j \in DOMAIN log[c] :
      (i < j /\ What(log[c][i]) = "release")
        => What(log[c][j]) \notin {"commit", "rollback"}

\* C6: execute_transaction starts a transaction, then executes the operations
\* strictly in list order (operation i is the (i+1)th thing done), all on one
\* connection; nothing is executed or committed after a failed operation;
\* commit is invoked at most once, only right after the last operation and only
\* when every operation executed; a successful call has committed.
C6_OrderedSingleCommit ==
  \A c \in Callers :
    op[c] = "txn" =>
      LET L == log[c] IN
      /\ \A j \in Positions(c, {"exec", "fail"}) :
           /\ OpIndex(L[j]) = j - 1
           /\ What(L[1]) = "start"
      /\ \A j \in DOMAIN L : OnConn(L[j]) = OnConn(L[1])
      /\ \A j \in Positions(c, {"fail"}) :
           \A n \in Positions(c, {"exec", "fail", "commit"}) : n <= j
      /\ Cardinality(Positions(c, {"commit"})) <= 1
      /\ \A j \in Positions(c, {"commit"}) :
           /\ j = Len(operations) + 2
           /\ What(L[1]) = "start"
           /\ \A n \in 2..(j - 1) : What(L[n]) = "exec"
      /\ (pc[c] = "idle" /\ result[c] \in {"True", "Summary"})
           => Positions(c, {"commit"}) # {}

\* a call has executed its three operations in order and committed
C6_Witness ==
  \E c \in Callers :
    /\ pc[c] = "idle" /\ op[c] = "txn" /\ result[c] \in {"True", "Summary"}
    /\ Len(operations) = 3
    /\ \E k \in Conns :
         log[c] = <<Ev("start", k), EvOp("exec", k, 1), EvOp("exec", k, 2),
                    EvOp("exec", k, 3), Ev("commit", k), Ev("release", k)>>

\* C7: in MySQLConnectionManager.execute_transaction every operation is
\* executed with its None parameters replaced by the id generated by the
\* latest earlier operation of the list that generated one (lastrowid not 0);
\* without such an operation the parameters are passed as given.
GeneratingBefore(j) == {i \in 1..(j - 1) : operations[i].lastrowid # 0}
Latest(S) == CHOOSE i \in S : \A n \in S : n <= i
ExpectedParams(j) ==
  LET given == operations[j].params IN
  IF GeneratingBefore(j) = {} THEN given
  ELSE [n \in 1..Len(given) |->
          IF given[n] = NoneVal
            THEN operations[Latest(GeneratingBefore(j))].lastrowid
            ELSE given[n]]

C7_PlaceholderSubstitution ==
  \A c \in Callers :
    (kind = "MCM" /\ op[c] = "txn") =>
      \A j \in DOMAIN executed[c] : executed[c][j] = ExpectedParams(j)

\* [INSERT generating 7, INSERT generating 9, INSERT with placeholder]: the
\* third is executed with 9; and [INSERT generating 7, placeholder] with 7
C7_Witness ==
  /\ operations = <<[params |-> <<5>>, lastrowid |-> 7],
                    [params |-> <<NoneVal, 5>>, lastrowid |-> 9],
                    [params |-> <<NoneVal, 5>>, lastrowid |-> 0]>>
  /\ executed[1] = << <<5>>, <<7, 5>>, <<9, 5>> >>
  /\ result[1] = "True"

\* ------------------------------------------------------- QueryMetrics
\* record_query calls made in all: with any arguments (SpecMetrics), next to
\* get_stats (SpecStats), and filling the history past its capacity (SpecRing)
MaxRecords == 4
StatsRecords == 2
RingCalls == 150

\* execution times in seconds: at the slow-query threshold and above it
ExecTimes == {1, 2}

\* a thread's position is <<phase, field>>: the statement it is at and the
\* attribute that statement is about; <<"idle", f>>: its call of f has returned
Idle(t) == mpc[t][1] = "idle"
RecordPhases == {"load", "store", "append", "evict", "release"}
StatsPhases == {"read", "cond", "num", "den"}

Field(f) ==
  CASE f = "total_queries" -> total_queries
    [] f = "slow_queries" -> slow_queries
    [] f = "errors" -> errors
    [] f = "total_execution_time" -> total_execution_time

\* `with self.lock:` (line 119): entering, and leaving
Acquire_unguarded(t) == lock' = t

Acquire(t) == lock = NoThread /\ lock' = t

\* record_query(sql, execution_time, success) is called and gets the lock
record_query(t, execution_time, success, limit) ==
  /\ Idle(t) /\ nRecords < limit
  /\ Acquire(t)
  /\ nRecords' = nRecords + 1
  /\ nFailed' = nFailed + (IF success THEN 0 ELSE 1)
  /\ arg' = Set(arg, t, [record |-> nRecords + 1, execution_time |-> execution_time,
                         success |-> success])
  /\ mpc' = Set(mpc, t, <<"load", "total_queries">>)
  /\ UNCHANGED <<total_queries, slow_queries, errors, total_execution_time,
                 query_history, reg, snap, views>>

\* `self.f += d` (lines 120, 121, 124, 127) is a load of the attribute ...
record_load(t) ==
  /\ mpc[t][1] = "load"
  /\ reg' = Set(reg, t, Field(mpc[t][2]))
  /\ mpc' = Set(mpc, t, <<"store", mpc[t][2]>>)
  /\ UNCHANGED <<total_queries, slow_queries, errors, total_execution_time,
                 query_history, lock, arg, snap, nRecords, nFailed, views>>

\* a query that took exactly the threshold counts as slow
AfterErrors_at_threshold(t) ==
  IF arg[t].execution_time >= SlowQueryThreshold
    THEN <<"load", "slow_queries">> ELSE <<"append", "">>

\* `if execution_time > self.slow_query_threshold:` (line 126)
AfterErrors(t) ==
  IF arg[t].execution_time > SlowQueryThreshold
    THEN <<"load", "slow_queries">> ELSE <<"append", "">>

\* `if not success:` (line 123)
AfterTime(t) == IF ~arg[t].success THEN <<"load", "errors">> ELSE AfterErrors(t)

\* ... and a store of the sum
record_store(t) ==
  /\ mpc[t][1] = "store"
  /\ LET f == mpc[t][2]
         sum == reg[t] + (IF f = "total_execution_time" THEN arg[t].execution_time ELSE 1)
     IN /\ total_queries' = IF f = "total_queries" THEN sum ELSE total_queries
        /\ total_execution_time' =
             IF f = "total_execution_time" THEN sum ELSE total_execution_time
        /\ errors' = IF f = "errors" THEN sum ELSE errors
        /\ slow_queries' = IF f = "slow_queries" THEN sum ELSE slow_queries
        /\ mpc' = Set(mpc, t, CASE f = "total_queries" -> <<"load", "total_execution_time">>
                                [] f = "total_execution_time" -> AfterTime(t)
                                [] f = "errors" -> AfterErrors(t)
                                [] f = "slow_queries" -> <<"append", "">>)
  /\ views' = [r \in Callers |->
                 IF mpc[r][1] \in StatsPhases THEN views[r] \cup {Counters'} ELSE views[r]]
  /\ UNCHANGED <<query_history, lock, arg, reg, snap, nRecords, nFailed>>

\* self.query_history.append({...}) (lines 131-136)
record_append(t) ==
  /\ mpc[t][1] = "append"
  /\ query_history' = Append(query_history, arg[t])
  /\ mpc' = Set(mpc, t, <<"evict", "">>)
  /\ UNCHANGED <<total_queries, slow_queries, errors, total_execution_time, lock, arg,
                 reg, snap, nRecords, nFailed, views>>

\* `if len(self.query_history) > 100: self.query_history.pop(0)` (lines 138-139)
Evict_newest(h) == IF Len(h) > HistoryCap THEN SubSeq(h, 1, Len(h) - 1) ELSE h

Evict(h) == IF Len(h) > HistoryCap THEN Tail(h) ELSE h

record_evict(t) ==
  /\ mpc[t][1] = "evict"
  /\ query_history' = Evict(query_history)
  /\ mpc' = Set(mpc, t, <<"release", "">>)
  /\ UNCHANGED <<total_queries, slow_queries, errors, total_execution_time, lock, arg,
                 reg, snap, nRecords, nFailed, views>>

\* the with block is left and record_query returns
record_release(t) ==
  /\ mpc[t][1] = "release"
  /\ lock' = NoThread
  /\ mpc' = Set(mpc, t, <<"idle", "">>)
  /\ arg' = Set(arg, t, NoArg)
  /\ reg' = Set(reg, t, 0)
  /\ UNCHANGED <<total_queries, slow_queries, errors, total_execution_time,
                 query_history, snap, nRecords, nFailed, views>>

\* get_stats (lines 156-166) takes no lock.  The dictionary display evaluates
\* its values in order; the first is self.total_queries.
get_stats(t) ==
  /\ Idle(t)
  /\ snap' = Set(snap, t, [EmptySnap EXCEPT !.total_queries = total_queries])
  /\ views' = Set(views, t, {Counters})
  /\ mpc' = Set(mpc, t, <<"read", "slow_queries">>)
  /\ UNCHANGED <<total_queries, slow_queries, errors, total_execution_time,
                 query_history, lock, arg, reg, nRecords, nFailed>>

\* 'slow_queries': self.slow_queries, 'errors': self.errors (lines 160-161)
get_stats_read(t) ==
  /\ mpc[t][1] = "read"
  /\ LET f == mpc[t][2]
     IN /\ snap' = [snap EXCEPT ![t][f] = Field(f)]
        /\ mpc' = Set(mpc, t, IF f = "slow_queries" THEN <<"read", "errors">>
                              ELSE <<"cond", "average_execution_time">>)
  /\ UNCHANGED <<total_queries, slow_queries, errors, total_execution_time,
                 query_history, lock, arg, reg, nRecords, nFailed, views>>

\* the three properties (lines 141-154), each `num / total_queries [* 100] if
\* self.total_queries > 0 else 0`: the condition, then the two operands, are
\* three reads of the attributes
AfterProperty(f) ==
  CASE f = "average_execution_time" -> <<"cond", "error_rate">>
    [] f = "error_rate" -> <<"cond", "slow_query_rate">>
    [] f = "slow_query_rate" -> <<"idle", "get_stats">>

Numerator(f) ==
  CASE f = "average_execution_time" -> total_execution_time
    [] f = "error_rate" -> errors
    [] f = "slow_query_rate" -> slow_queries

Percent(f) == IF f = "average_execution_time" THEN 1 ELSE 100

get_stats_cond(t) ==
  /\ mpc[t][1] = "cond"
  /\ LET f == mpc[t][2]
     IN IF total_queries > 0
          THEN mpc' = Set(mpc, t, <<"num", f>>) /\ UNCHANGED snap
          ELSE mpc' = Set(mpc, t, AfterProperty(f))
               /\ snap' = [snap EXCEPT ![t][f] = Quot(0, 1)]
  /\ UNCHANGED <<total_queries, slow_queries, errors, total_execution_time,
                 query_history, lock, arg, reg, nRecords, nFailed, views>>

get_stats_num(t) ==
  /\ mpc[t][1] = "num"
  /\ reg' = Set(reg, t, Numerator(mpc[t][2]))
  /\ mpc' = Set(mpc, t, <<"den", mpc[t][2]>>)
  /\ UNCHANGED <<total_queries, slow_queries, errors, total_execution_time,
                 query_history, lock, arg, snap, nRecords, nFailed, views>>

get_stats_den(t) ==
  /\ mpc[t][1] = "den"
  /\ LET f == mpc[t][2]
     IN /\ snap' = [snap EXCEPT ![t][f] = Quot(reg[t] * Percent(f), total_queries)]
        /\ mpc' = Set(mpc, t, AfterProperty(f))
  /\ reg' = Set(reg, t, 0)
  /\ UNCHANGED <<total_queries, slow_queries, errors, total_execution_time,
                 query_history, lock, arg, nRecords, nFailed, views>>

\* the statements of a record_query call that holds the lock
record_step(t) ==
  \/ record_load(t)
  \/ record_store(t)
  \/ record_append(t)
  \/ record_evict(t)
  \/ record_release(t)

\* --------------------------------------------- specification: metrics
\* a DatabaseManager as constructed (lines 175-187), its QueryMetrics shared
\* by the threads
InitMetrics ==
  /\ InitManagers({"DM"}, {<<>>}) /\ ~is_connected /\ pool_reset_session
  /\ InitQueryMetrics
  /\ InitRest

\* threads calling record_query with any arguments
NextMetrics ==
  \E t \in Callers :
    \/ \E execution_time \in ExecTimes, success \in BOOLEAN :
         record_query(t, execution_time, success, MaxRecords)
           /\ UNCHANGED <<poolVars, txnVars, restVars>>
    \/ record_step(t) /\ UNCHANGED <<poolVars, txnVars, restVars>>

SpecMetrics == InitMetrics /\ [][NextMetrics]_vars

\* the same, StatsRecords calls in all, while one thread asks for statistics
StatsCallers == {1}

NextStats ==
  \/ \E t \in Callers :
       \/ \E execution_time \in ExecTimes, success \in BOOLEAN :
            record_query(t, execution_time, success, StatsRecords)
              /\ UNCHANGED <<poolVars, txnVars, restVars>>
       \/ record_step(t) /\ UNCHANGED <<poolVars, txnVars, restVars>>
  \/ \E t \in StatsCallers :
       \/ get_stats(t) /\ UNCHANGED <<poolVars, txnVars, restVars>>
       \/ get_stats_read(t) /\ UNCHANGED <<poolVars, txnVars, restVars>>
       \/ get_stats_cond(t) /\ UNCHANGED <<poolVars, txnVars, restVars>>
       \/ get_stats_num(t) /\ UNCHANGED <<poolVars, txnVars, restVars>>
       \/ get_stats_den(t) /\ UNCHANGED <<poolVars, txnVars, restVars>>

SpecStats == InitMetrics /\ [][NextStats]_vars

\* RingCalls fast successful queries, recorded by any of the threads
NextRing ==
  \E t \in Callers :
    \/ record_query(t, 1, TRUE, RingCalls) /\ UNCHANGED <<poolVars, txnVars, restVars>>
    \/ record_step(t) /\ UNCHANGED <<poolVars, txnVars, restVars>>

SpecRing == InitMetrics /\ [][NextRing]_vars

\* --------------------------------------------------- claims: metrics
Recording == {t \in Callers : mpc[t][1] \in RecordPhases}

\* C8: whatever the interleaving of the threads calling record_query, once
\* all the calls made have returned, total_queries is the number of calls made
\* and errors the number of calls made with success=False.
C8_NoLostUpdate ==
  Recording = {} => (total_queries = nRecords /\ errors = nFailed)

\* three calls, one of them of a failed query, have all returned
C8_Witness ==
  /\ Recording = {}
  /\ nRecords = 3 /\ nFailed = 1
  /\ total_queries = 3 /\ errors = 1

\* C9: whenever the lock is free, after n record_query calls, query_history
\* holds min(n, 100) entries, and they are the records n - min(n, 100) + 1 .. n
\* in call order.
C9_RingBuffer ==
  lock = NoThread =>
    /\ Len(query_history) = (IF nRecords < HistoryCap THEN nRecords ELSE HistoryCap)
    /\ \A i \in DOMAIN query_history :
         query_history[i].record = nRecords - Len(query_history) + i

\* after 150 calls the history holds records 51..150
C9_Witness ==
  /\ lock = NoThread /\ nRecords = 150
  /\ Len(query_history) = 100
  /\ query_history[1].record = 51 /\ query_history[100].record = 150

\* C10: the dictionary get_stats has returned is a snapshot of one state of the
\* metrics: total_queries, errors and slow_queries are those of one state the
\* metrics were in at some moment of the call, and the three derived values
\* are the quotients computed from the returned counters (the average from
\* them and that state's total_execution_time).
C10_ConsistentSnapshot ==
  \A t \in Callers :
    mpc[t] = <<"idle", "get_stats">> =>
      LET s == snap[t]
          Rate(n) == IF s.total_queries > 0 THEN Quot(n * 100, s.total_queries)
                     ELSE Quot(0, 1)
      IN /\ \E v \in views[t] :
              /\ v.total_queries = s.total_queries
              /\ v.errors = s.errors
              /\ v.slow_queries = s.slow_queries
              /\ QuotEq(s.average_execution_time,
                        IF v.total_queries > 0
                          THEN Quot(v.total_execution_time, v.total_queries)
                          ELSE Quot(0, 1))
         /\ QuotEq(s.error_rate, Rate(s.errors))
         /\ QuotEq(s.slow_query_rate, Rate(s.slow_queries))

\* ------------------------------------- DatabaseManager.execute_query
\* the with block of execute_query (lines 296-308), and of _test_connection
\* (lines 237-241), runs its statement and is left; out: how the statement ended
DM_query_body(c, out) ==
  /\ kind = "DM" /\ pc[c] = "body" /\ op[c] \in {"query", "probe"}
  /\ DM_exit(c, out, IF out = "ok" THEN "Results" ELSE out,
             IF out = "ok" THEN Append(log[c], EvOp("exec", conn[c], 1))
             ELSE Append(log[c], EvOp("fail", conn[c], 1)),
             pending[conn[c]])
  /\ UNCHANGED <<kind, is_connected, pool_reset_session, committed, op, nCalls, callNo,
                 attempts>>

\* `success` as the finally clause finds it: True from line 292 unless the
\* `except Error` clause (lines 310-311) ran
QuerySuccess(res) == res \notin DriverErrors

\* finally (lines 316-318): self.metrics.record_query(sql, execution_time, success)
DM_query_finally(c, execution_time) ==
  /\ kind = "DM" /\ pc[c] = "query_finally"
  /\ record_query(c, execution_time, QuerySuccess(result[c]), MaxCalls)
  /\ pc' = Set(pc, c, "query_return")
  /\ log' = Set(log, c, Append(log[c],
                 Ev(IF QuerySuccess(result[c]) THEN "record_ok" ELSE "record_failed",
                    NoConn)))
  /\ UNCHANGED <<kind, is_connected, pool_reset_session, idle, pending, committed, op,
                 conn, via, result, stats, nCalls, exhInc, attempts, callNo>>

\* record_query has returned: `return results, execution_time` (line 320), or
\* the exception leaves execute_query
DM_query_return(c) ==
  /\ kind = "DM" /\ pc[c] = "query_return" /\ Idle(c)
  /\ pc' = Set(pc, c, "idle")
  /\ UNCHANGED <<kind, is_connected, pool_reset_session, idle, pending, committed, op,
                 conn, via, result, stats, nCalls, exhInc, attempts, log, callNo>>

\* --------------------------------------- specification: execute_query
InitQuery == InitManagers({"DM"}, {<<>>}) /\ InitQueryMetrics /\ InitRest

\* the callers of execute_query
QueryCallers == {1, 2}

NextQuery ==
  \E c \in QueryCallers :
    \/ \E auditOk \in BOOLEAN :
         DM_get_connection(c, "query", auditOk) /\ UNCHANGED <<txnVars, metricVars, restVars>>
    \/ \E out \in BodyOutcomes :
         DM_query_body(c, out) /\ UNCHANGED <<txnVars, metricVars, restVars>>
    \/ \E execution_time \in ExecTimes :
         DM_query_finally(c, execution_time) /\ UNCHANGED <<txnVars, restVars>>
    \/ (pc[c] = "query_return" /\ record_step(c)) /\ UNCHANGED <<poolVars, txnVars, restVars>>
    \/ DM_query_return(c) /\ UNCHANGED <<txnVars, metricVars, restVars>>

SpecQuery == InitQuery /\ [][NextQuery]_vars

\* ---------------------------------------------- claims: execute_query
Returned(c, o) == op[c] = o /\ pc[c] = "idle" /\ callNo[c] > 0

\* C11: every DatabaseManager.execute_query call records exactly one metrics
\* entry, and that entry has success=True exactly when the call returned a
\* result: every call that raised recorded success=False (for which
\* record_query increments errors).
C11_OneRecordPerQuery ==
  \A c \in Callers :
    Returned(c, "query") =>
      /\ Cardinality(Positions(c, {"record_ok", "record_failed"})) = 1
      /\ (result[c] = "Results") <=> (Positions(c, {"record_ok"}) # {})

\* C12: a statement that fails inside execute_query reaches the caller as a
\* QueryError wrapping the driver error, never as the driver error itself.
C12_TaggedQueryError ==
  \A c \in Callers :
    (Returned(c, "query") /\ Positions(c, {"fail"}) # {}) => result[c] = "QueryError"

\* ------------------------------ MySQLConnectionManager.execute_query
\* statements: a SELECT with its result set, or a write with its affected rows
Statements ==
  [kind : {"select"}, rows : {<<>>, <<11, 12>>}, affected : {0}]
    \cup [kind : {"write"}, rows : {<<>>}, affected : {2}]

\* the fetch argument; "other" stands for any string that is no fetch mode
FetchModes == {"all", "one", "none", "other"}

\* cursor.rowcount of a buffered cursor
Rowcount(q) == IF q.kind = "select" THEN Len(q.rows) ELSE q.affected

\* cursor.fetchone() (line 227)
FetchOne(rows) == IF rows # <<>> THEN Head(rows) ELSE NoneVal

\* `elif fetch == 'none': connection.commit()` (lines 228-229)
QueryCommits_never(fetch) == FALSE

QueryCommits(fetch) == fetch = "none"

\* the with block of execute_query (lines 212-249) runs and is left.
\* q: the statement, with its fetch mode; fails: the driver call that raises
\* Error ("no": none does)
MCM_query(c, q, fails) ==
  /\ kind = "MCM" /\ pc[c] = "body" /\ op[c] = "query"
  /\ query' = Set(query, c, q)
  /\ LET k == conn[c]
         p1 == pending[k] \cup (IF q.kind = "write" THEN {<<callNo[c], 1>>} ELSE {})
         s1 == Bump(stats, "queries_executed")
         l1 == Append(log[c], EvOp("exec", k, 1))
         \* except Error (lines 239-246): rollback, count, re-raise
         Raise(s, l) == MCM_exit(c, "Error", "Error", Bump(s, "query_errors"),
                                 Append(l, Ev("rollback", k)), {})
     IN CASE fails = "execute" ->
               /\ Raise(stats, Append(log[c], EvOp("fail", k, 1)))
               /\ UNCHANGED <<fetched, committed>>
          [] fails = "fetch" /\ q.fetch \in {"all", "one"} ->
               /\ Raise(s1, l1)
               /\ UNCHANGED <<fetched, committed>>
          [] fails = "commit" /\ QueryCommits(q.fetch) ->
               /\ Raise(s1, Append(l1, Ev("commit", k)))
               /\ UNCHANGED <<fetched, committed>>
          [] OTHER ->
               IF q.fetch \in {"all", "one"}
                 THEN /\ fetched' = Set(fetched, c, IF q.fetch = "all" THEN q.rows
                                                    ELSE FetchOne(q.rows))
                      /\ MCM_exit(c, "ok", "Results", s1, l1, p1)
                      /\ UNCHANGED committed
               ELSE IF q.fetch = "none"
                 THEN /\ fetched' = Set(fetched, c, Rowcount(q))
                      /\ IF QueryCommits(q.fetch)
                           THEN /\ committed' = committed \cup p1
                                /\ MCM_exit(c, "ok", "Results", s1,
                                            Append(l1, Ev("commit", k)), {})
                           ELSE /\ MCM_exit(c, "ok", "Results", s1, l1, p1)
                                /\ UNCHANGED committed
               ELSE \* ValueError (line 232), which no except clause catches
                    /\ MCM_exit(c, "Other", "Other", s1, l1, p1)
                    /\ UNCHANGED <<fetched, committed>>
  /\ UNCHANGED <<kind, is_connected, pool_reset_session, op, nCalls, callNo, attempts,
                 pool, reachable>>

\* ---------------- specification: MySQLConnectionManager.execute_query
InitMcmQuery == InitManagers({"MCM"}, {<<>>}) /\ InitQueryMetrics /\ InitRest

\* one caller of execute_query next to a caller of plain scopes: no more
\* callers than connections, so that the pool is never found exhausted
NextMcmQuery ==
  \/ \/ MCM_get_connection(1, "query") /\ UNCHANGED <<txnVars, metricVars, restVars>>
     \/ \E st \in Statements, fetch \in FetchModes,
           fails \in {"no", "execute", "fetch", "commit"} :
          MCM_query(1, [kind |-> st.kind, rows |-> st.rows, affected |-> st.affected,
                        fetch |-> fetch], fails)
            /\ UNCHANGED <<txnVars, metricVars, appVars>>
  \/ \E c \in ScopeCallers :
       \/ MCM_get_connection(c, "scope") /\ UNCHANGED <<txnVars, metricVars, restVars>>
       \/ MCM_scope(c, "ok") /\ UNCHANGED <<txnVars, metricVars, restVars>>

SpecMcmQuery == InitMcmQuery /\ [][NextMcmQuery]_vars

\* C13: a MySQLConnectionManager.execute_query call that returns gives back
\* all rows for fetch='all', the first row or None for fetch='one' and the
\* affected-row count for fetch='none'; with fetch='none' it has committed
\* exactly once, after the statement executed and before the connection was
\* released, and the write it made is persisted.
C13_FetchModes ==
  \A c \in Callers :
    (Returned(c, "query") /\ result[c] = "Results") =>
      LET q == query[c]
          commits == Positions(c, {"commit"})
      IN /\ q.fetch = "all" => fetched[c] = q.rows
         /\ q.fetch = "one" =>
              fetched[c] = (IF q.rows = <<>> THEN NoneVal ELSE q.rows[1])
         /\ q.fetch = "none" =>
              /\ fetched[c] = Rowcount(q)
              /\ Cardinality(commits) = 1
              /\ \A j \in commits :
                   /\ \E i \in Positions(c, {"exec"}) : i < j
                   /\ \A i \in Positions(c, {"release", "dropped"}) : j < i
              /\ q.kind = "write" => <<callNo[c], 1>> \in committed

\* a write issued with fetch='none' has returned its row count, persisted
C13_Witness ==
  \E c \in Callers :
    /\ Returned(c, "query") /\ result[c] = "Results"
    /\ query[c].kind = "write" /\ query[c].fetch = "none"
    /\ fetched[c] = 2 /\ <<callNo[c], 1>> \in committed
    /\ log[c] = <<EvOp("exec", 1, 1), Ev("commit", 1), Ev("release", 1)>>

\* ---------------------------------------- DatabaseManager.initialize
\* initialize up to the entry of _test_connection's with statement: the pool
\* is created (line 222; the constructor opens the connections and raises
\* Error when the server is unreachable, which lines 230-232 log and re-raise),
\* then _test_connection (line 225) enters get_connection
DM_initialize(c, auditOk) ==
  /\ kind = "DM" /\ pc[c] = "idle" /\ pool = "None"
  /\ IF reachable
       THEN /\ pool' = "Pool"
            /\ DM_get_connection(c, "probe", auditOk)
       ELSE /\ nCalls < MaxCalls
            /\ nCalls' = nCalls + 1
            /\ callNo' = Set(callNo, c, nCalls + 1)
            /\ op' = Set(op, c, "probe")
            /\ result' = Set(result, c, "Error")
            /\ log' = Set(log, c, <<>>)
            /\ UNCHANGED <<pool, kind, is_connected, pool_reset_session, idle, pending,
                           committed, pc, conn, via, stats, exhInc, attempts>>
  /\ UNCHANGED <<reachable, query, fetched>>

\* _test_connection has ended: when the probe returned, line 227 sets
\* is_connected and initialize returns None; an Error is logged and re-raised
\* (lines 243-245, 230-232) and any other exception passes through
DM_initialize_return(c) ==
  /\ kind = "DM" /\ pc[c] = "init_return"
  /\ pc' = Set(pc, c, "idle")
  /\ IF result[c] = "Results"
       THEN is_connected' = TRUE /\ result' = Set(result, c, "None")
       ELSE UNCHANGED <<is_connected, result>>
  /\ UNCHANGED <<kind, pool_reset_session, idle, pending, committed, op, conn, via,
                 stats, nCalls, exhInc, attempts, log, callNo>>

\* ------------------------------------------ specification: initialize
\* a DatabaseManager as constructed (lines 175-187); the server reachable or not
InitInitialize ==
  /\ InitManagers({"DM"}, {<<>>}) /\ ~is_connected
  /\ InitQueryMetrics
  /\ pool = "None"
  /\ reachable \in BOOLEAN
  /\ query = [c \in Callers |-> NoQuery]
  /\ fetched = [c \in Callers |-> NoneVal]
  /\ InitHealthChecker /\ InitETL

\* create_database_manager (lines 578-581) calls initialize; callers then call
\* execute_query.  No with block is ever entered here: get_connection raises at
\* line 253 as long as is_connected is False.
NextInitialize ==
  \/ \E auditOk \in BOOLEAN :
       DM_initialize(1, auditOk) /\ UNCHANGED <<txnVars, metricVars, appVars>>
  \/ DM_initialize_return(1) /\ UNCHANGED <<txnVars, metricVars, restVars>>
  \/ \E c \in QueryCallers :
       \/ DM_get_connection(c, "query", TRUE) /\ UNCHANGED <<txnVars, metricVars, restVars>>
       \/ \E execution_time \in ExecTimes :
            DM_query_finally(c, execution_time) /\ UNCHANGED <<txnVars, restVars>>
       \/ (pc[c] = "query_return" /\ record_step(c))
            /\ UNCHANGED <<poolVars, txnVars, restVars>>
       \/ DM_query_return(c) /\ UNCHANGED <<txnVars, metricVars, restVars>>

SpecInitialize == InitInitialize /\ [][NextInitialize]_vars

\* C14: initialize on a reachable database returns with is_connected = True,
\* and on an unreachable one raises a driver Error and leaves is_connected
\* False; an execute_query call made after a successful initialize does not
\* fail with the 'not initialized' RuntimeError.
C14_Initialize ==
  /\ \A c \in Callers :
       Returned(c, "probe") =>
         IF reachable THEN result[c] = "None" /\ is_connected
         ELSE result[c] \in DriverErrors /\ ~is_connected
  /\ \A c \in Callers :
       (is_connected /\ Returned(c, "query")) => result[c] # "RuntimeError"

\* ------------------------------------------ DatabaseHealthChecker
\* the names under which run_all_checks' six checks record their entry, in
\* the order of the calls (lines 313-318)
CheckNames ==
  <<"connection_pool", "query_performance", "database_size", "replication",
    "audit_log", "backup">>

\* the statuses a check entry can carry ('unknown' is also what line 293
\* substitutes for an entry without a status)
Statuses == {"healthy", "warning", "critical", "failed", "not_applicable", "unknown"}

\* health_status['checks'] is an insertion-ordered dict: a sequence of
\* <<check_name, status>> entries
StatusesOf(checks) == {checks[i][2] : i \in 1..Len(checks)}

\* the loop of lines 289-298
has_critical(checks) == \E s \in StatusesOf(checks) : s = "critical" \/ s = "failed"

has_warning(checks) == \E s \in StatusesOf(checks) : s = "warning"

\* lines 300-305
Overall(checks) ==
  IF has_critical(checks) THEN "critical"
  ELSE IF has_warning(checks) THEN "warning"
  ELSE "healthy"

determine_overall_status ==
  /\ hpc = "determine"
  /\ health_status' = [health_status EXCEPT !.overall = Overall(health_status.checks)]
  /\ hpc' = "finally"
  /\ UNCHANGED <<db, perf_stats, exit_code>>

\* --------------------------- specification: determine_overall_status
\* at most MaxChecks entries are recorded
MaxChecks == 3

\* the entries of the checks in `names`, in the order of CheckNames
Entries(names, st) ==
  LET recorded == SelectSeq(CheckNames, LAMBDA n : n \in names)
  IN  [i \in 1..Len(recorded) |-> <<recorded[i], st[recorded[i]]>>]

\* a checker about to call determine_overall_status (line 320), with any
\* entries recorded and overall as any earlier step may have left it
InitOverall ==
  /\ InitManagers({"MCM"}, {<<>>}) /\ pool_reset_session
  /\ InitQueryMetrics /\ InitDatabaseQuery /\ InitETL
  /\ db = "open"
  /\ hpc = "determine"
  /\ perf_stats = [error_rate |-> 0, slow_query_rate |-> 0]
  /\ exit_code = NoneVal
  /\ \E names \in SUBSET {CheckNames[i] : i \in 1..Len(CheckNames)} :
       /\ Cardinality(names) <= MaxChecks
       /\ \E st \in [names -> Statuses], o \in {"healthy", "warning"} :
            health_status = [overall |-> o, checks |-> Entries(names, st)]

NextOverall ==
  determine_overall_status
    /\ UNCHANGED <<poolVars, txnVars, metricVars, queryVars, etlVars>>

SpecOverall == InitOverall /\ [][NextOverall]_vars

\* C15: after determine_overall_status the overall status is the most severe
\* recorded status under critical > failed > warning > healthy: critical if
\* some check is critical, failed if the worst check is failed, warning if the
\* worst is warning, healthy otherwise (not_applicable and unknown never raise
\* it).
C15_MostSevere ==
  hpc = "finally" =>
    LET S == StatusesOf(health_status.checks)
    IN  health_status.overall =
          IF "critical" \in S THEN "critical"
          ELSE IF "failed" \in S THEN "failed"
          ELSE IF "warning" \in S THEN "warning"
          ELSE "healthy"

\* ------------------------------------ DatabaseHealthChecker: the run
\* health_status['checks'][name] = {'status': status, ...}: a new key is
\* appended, an existing key keeps its place
Put(checks, name, status) ==
  IF \E i \in 1..Len(checks) : checks[i][1] = name
    THEN [i \in 1..Len(checks) |->
            IF checks[i][1] = name THEN <<name, status>> ELSE checks[i]]
    ELSE Append(checks, <<name, status>>)

\* the k-th check of run_all_checks is the next statement to run
AtCheck(k) == hpc = "checks" /\ Len(health_status.checks) = k - 1

\* where run_all_checks continues after its k-th check returned
AfterCheck(k) == IF k = Len(CheckNames) THEN "determine" ELSE "checks"

\* `if not self.connect(): return self.health_status` (lines 309-310)
AfterConnect_run_checks(created) == "checks"

AfterConnect(created) == IF created THEN "checks" ELSE "returned"

\* connect (lines 38-49): create_database_manager returns an initialized
\* manager, or raises and the failure is recorded
connect(created) ==
  /\ hpc = "start"
  /\ hpc' = AfterConnect(created)
  /\ IF created
       THEN /\ db' = "open"
            /\ UNCHANGED health_status
       ELSE /\ health_status' = [overall |-> "critical",
                                 checks |-> Put(health_status.checks, "connection", "failed")]
            /\ UNCHANGED db
  /\ UNCHANGED <<perf_stats, exit_code>>

\* check_connection_pool (lines 51-81): DatabaseManager defines no
\* getPoolStatus, so line 54 raises AttributeError and the handler of lines
\* 75-81 records the check as failed
check_connection_pool ==
  /\ AtCheck(1)
  /\ health_status' =
       [overall |-> IF health_status.overall = "healthy" THEN "warning"
                    ELSE health_status.overall,
        checks |-> Put(health_status.checks, "connection_pool", "failed")]
  /\ hpc' = AfterCheck(1)
  /\ UNCHANGED <<db, perf_stats, exit_code>>

\* thresholds of check_query_performance, in percent
ErrorRateWarning == 1

ErrorRateCritical == 5

SlowRateWarning == 10

SlowRateCritical == 25

\* lines 89-98: four assignments in sequence, the last one that applies wins
QueryPerformanceStatus(perf) ==
  LET s1 == IF perf.error_rate > ErrorRateWarning THEN "warning" ELSE "healthy"
      s2 == IF perf.error_rate > ErrorRateCritical THEN "critical" ELSE s1
      s3 == IF perf.slow_query_rate > SlowRateWarning THEN "warning" ELSE s2
      s4 == IF perf.slow_query_rate > SlowRateCritical THEN "critical" ELSE s3
  IN  s4

\* check_query_performance (lines 83-112)
check_query_performance(raises) ==
  /\ AtCheck(2)
  /\ health_status' =
       [health_status EXCEPT !.checks =
          Put(@, "query_performance",
              IF raises THEN "failed" ELSE QueryPerformanceStatus(perf_stats))]
  /\ hpc' = AfterCheck(2)
  /\ UNCHANGED <<db, perf_stats, exit_code>>

\* thresholds of check_database_size, in MB
SizeWarning == 10000

SizeCritical == 50000

\* check_database_size (lines 114-148)
check_database_size(raises, total_size) ==
  /\ AtCheck(3)
  /\ health_status' =
       [health_status EXCEPT !.checks =
          Put(@, "database_size",
              IF raises THEN "failed"
              ELSE IF total_size > SizeCritical THEN "critical"
              ELSE IF total_size > SizeWarning THEN "warning"
              ELSE "healthy")]
  /\ hpc' = AfterCheck(3)
  /\ UNCHANGED <<db, perf_stats, exit_code>>

\* thresholds of check_replication_lag, in seconds
LagWarning == 60

LagCritical == 300

\* SHOW SLAVE STATUS returned no row
NoReplica == -2

\* check_replication_lag (lines 150-189); seconds_behind_master is NoReplica
\* when the server is no replica and NoneVal when the column is NULL
check_replication_lag(raises, seconds_behind_master) ==
  /\ AtCheck(4)
  /\ health_status' =
       [health_status EXCEPT !.checks =
          Put(@, "replication",
              IF raises THEN "unknown"
              ELSE IF seconds_behind_master = NoReplica THEN "not_applicable"
              ELSE IF seconds_behind_master = NoneVal THEN "critical"
              ELSE IF seconds_behind_master > LagCritical THEN "critical"
              ELSE IF seconds_behind_master > LagWarning THEN "warning"
              ELSE "healthy")]
  /\ hpc' = AfterCheck(4)
  /\ UNCHANGED <<db, perf_stats, exit_code>>

\* check_audit_log_health (lines 191-228)
check_audit_log_health(raises, last_hour_count) ==
  /\ AtCheck(5)
  /\ health_status' =
       [health_status EXCEPT !.checks =
          Put(@, "audit_log",
              IF raises THEN "failed"
              ELSE IF last_hour_count = 0 THEN "warning"
              ELSE "healthy")]
  /\ hpc' = AfterCheck(5)
  /\ UNCHANGED <<db, perf_stats, exit_code>>

\* thresholds of check_backup_status, in hours
BackupWarning == 25

BackupCritical == 48

\* the backup directory does not exist / holds no backup file
NoDir == -2

NoFiles == -3

\* check_backup_status (lines 230-285)
check_backup_status(raises, hours_since_backup) ==
  /\ AtCheck(6)
  /\ health_status' =
       [health_status EXCEPT !.checks =
          Put(@, "backup",
              IF raises THEN "failed"
              ELSE IF hours_since_backup = NoDir THEN "warning"
              ELSE IF hours_since_backup = NoFiles THEN "critical"
              ELSE IF hours_since_backup > BackupCritical THEN "critical"
              ELSE IF hours_since_backup > BackupWarning THEN "warning"
              ELSE "healthy")]
  /\ hpc' = AfterCheck(6)
  /\ UNCHANGED <<db, perf_stats, exit_code>>

\* DatabaseManager.close is a no-op on a manager that never had a pool
Closed_never(d) == d

\* `if self.db: self.db.close()` (lines 327-328)
Closed(d) == IF d = "None" THEN d ELSE "closed"

\* the finally clause of run_all_checks and its return (lines 326-330)
run_finally ==
  /\ hpc = "finally"
  /\ db' = Closed(db)
  /\ hpc' = "returned"
  /\ UNCHANGED <<health_status, perf_stats, exit_code>>

\* main, after run_all_checks returned (lines 382-388)
ExitCode(overall) ==
  IF overall = "critical" THEN 2 ELSE IF overall = "warning" THEN 1 ELSE 0

main_exit ==
  /\ hpc = "returned"
  /\ exit_code' = ExitCode(health_status.overall)
  /\ hpc' = "exited"
  /\ UNCHANGED <<db, health_status, perf_stats>>

\* ------------------------------------ specification: health-check run
\* values on both sides of every threshold
SizeSamples == {SizeWarning, SizeWarning + 1, SizeCritical + 1}

LagSamples == {NoReplica, NoneVal, LagWarning, LagWarning + 1, LagCritical + 1}

BackupSamples == {NoDir, NoFiles, BackupWarning, BackupWarning + 1, BackupCritical + 1}

\* a checker as constructed (lines 28-36); its manager has recorded no query
InitHealth ==
  /\ InitManagers({"MCM"}, {<<>>}) /\ pool_reset_session
  /\ InitQueryMetrics /\ InitDatabaseQuery /\ InitETL
  /\ InitHealthChecker

\* main: run_all_checks, then the exit code.  The handler of lines 322-324 has
\* nothing to catch: every check handles its own exceptions and
\* determine_overall_status raises none.
NextHealth ==
  \/ \E created \in BOOLEAN :
       connect(created) /\ UNCHANGED <<poolVars, txnVars, metricVars, queryVars, etlVars>>
  \/ check_connection_pool /\ UNCHANGED <<poolVars, txnVars, metricVars, queryVars, etlVars>>
  \/ \E raises \in BOOLEAN :
       check_query_performance(raises)
         /\ UNCHANGED <<poolVars, txnVars, metricVars, queryVars, etlVars>>
  \/ \E raises \in BOOLEAN, total_size \in SizeSamples :
       check_database_size(raises, total_size)
         /\ UNCHANGED <<poolVars, txnVars, metricVars, queryVars, etlVars>>
  \/ \E raises \in BOOLEAN, seconds_behind_master \in LagSamples :
       check_replication_lag(raises, seconds_behind_master)
         /\ UNCHANGED <<poolVars, txnVars, metricVars, queryVars, etlVars>>
  \/ \E raises \in BOOLEAN, last_hour_count \in {0, 1} :
       check_audit_log_health(raises, last_hour_count)
         /\ UNCHANGED <<poolVars, txnVars, metricVars, queryVars, etlVars>>
  \/ \E raises \in BOOLEAN, hours_since_backup \in BackupSamples :
       check_backup_status(raises, hours_since_backup)
         /\ UNCHANGED <<poolVars, txnVars, metricVars, queryVars, etlVars>>
  \/ determine_overall_status
       /\ UNCHANGED <<poolVars, txnVars, metricVars, queryVars, etlVars>>
  \/ run_finally /\ UNCHANGED <<poolVars, txnVars, metricVars, queryVars, etlVars>>
  \/ main_exit /\ UNCHANGED <<poolVars, txnVars, metricVars, queryVars, etlVars>>

SpecHealth == InitHealth /\ [][NextHealth]_vars

\* the names of the recorded entries, in order
NamesOf(checks) == [i \in 1..Len(checks) |-> checks[i][1]]

\* C16: once connect has succeeded, the checks are recorded in the order
\* connection_pool, query_performance, database_size, replication, audit_log,
\* backup whatever subset of them raised, and when run_all_checks has returned
\* all six entries are present and the database manager has been closed.
C16_AllSixChecks ==
  db # "None" =>
    /\ NamesOf(health_status.checks) = SubSeq(CheckNames, 1, Len(health_status.checks))
    /\ hpc \in {"returned", "exited"} =>
         /\ NamesOf(health_status.checks) = CheckNames
         /\ db = "closed"

\* the run returned after the database_size and audit_log probes raised
C16_Witness ==
  /\ hpc = "returned" /\ db = "closed"
  /\ health_status.checks =
       <<<<"connection_pool", "failed">>, <<"query_performance", "healthy">>,
         <<"database_size", "failed">>, <<"replication", "not_applicable">>,
         <<"audit_log", "failed">>, <<"backup", "healthy">>>>

\* C17: the exit code is 0 when overall is healthy, 1 when it is warning and
\* 2 when it is critical or failed; a run that connected and in which every
\* probe succeeded with values within the thresholds exits with 0.
C17_ExitCode ==
  hpc = "exited" =>
    /\ exit_code = (CASE health_status.overall = "healthy" -> 0
                      [] health_status.overall = "warning" -> 1
                      [] health_status.overall \in {"critical", "failed"} -> 2)
    /\ ( /\ db # "None"
         /\ \A i \in 1..Len(health_status.checks) :
              health_status.checks[i][1] # "connection_pool" =>
                health_status.checks[i][2] \in {"healthy", "not_applicable"} )
       => exit_code = 0

\* C30: when the health checker cannot connect, run_all_checks returns a
\* report whose overall status is critical and whose checks hold the single
\* entry 'connection' with status failed: none of the six checks has run.
C30_ConnectFailure ==
  (db = "None" /\ hpc \in {"returned", "exited"}) =>
    /\ health_status.overall = "critical"
    /\ health_status.checks = <<<<"connection", "failed">>>>

\* run_all_checks returned after create_database_manager raised
C30_Witness ==
  /\ db = "None" /\ hpc = "returned"
  /\ NamesOf(health_status.checks) = <<"connection">>

\* --------------------------- specification: check_query_performance
\* rates (in percent) on both sides of every threshold
Rates ==
  {0, ErrorRateWarning, ErrorRateWarning + 1, ErrorRateCritical, ErrorRateCritical + 1,
   SlowRateWarning, SlowRateWarning + 1, SlowRateCritical, SlowRateCritical + 1}

\* a run about to call check_query_performance (line 314) on a manager whose
\* metrics show any pair of rates
InitPerformance ==
  /\ InitManagers({"MCM"}, {<<>>}) /\ pool_reset_session
  /\ InitQueryMetrics /\ InitDatabaseQuery /\ InitETL
  /\ db = "open"
  /\ health_status = [overall |-> "warning", checks |-> <<<<"connection_pool", "failed">>>>]
  /\ hpc = "checks"
  /\ perf_stats \in [error_rate : Rates, slow_query_rate : Rates]
  /\ exit_code = NoneVal

NextPerformance ==
  \E raises \in BOOLEAN :
    check_query_performance(raises)
      /\ UNCHANGED <<poolVars, txnVars, metricVars, queryVars, etlVars>>

SpecPerformance == InitPerformance /\ [][NextPerformance]_vars

\* C18: the status check_query_performance records from the statistics is
\* critical when error_rate > 5 or slow_query_rate > 25, otherwise warning when
\* error_rate > 1 or slow_query_rate > 10, otherwise healthy; a critical
\* verdict from the error rate is never lowered by the slow-query rate.
C18_WorseVerdict ==
  \A i \in 1..Len(health_status.checks) :
    (health_status.checks[i][1] = "query_performance"
       /\ health_status.checks[i][2] # "failed") =>
      health_status.checks[i][2] =
        IF perf_stats.error_rate > 5 \/ perf_stats.slow_query_rate > 25 THEN "critical"
        ELSE IF perf_stats.error_rate > 1 \/ perf_stats.slow_query_rate > 10 THEN "warning"
        ELSE "healthy"

\* ----------------------------------------- MySQLETLPipeline: transform
\* thresholds of classify_segment: days since the last order, amount spent,
\* number of orders
ChurnedDays == 365

AtRiskDays == 180

VipSpent == 5000

VipOrders == 20

\* the rule for 'regular' tested before the rule for 'vip'
classify_segment_regular_first(r) ==
  IF r.total_orders = 0 THEN "new"
  ELSE IF r.days_since_last_order > ChurnedDays THEN "churned"
  ELSE IF r.days_since_last_order > AtRiskDays THEN "at_risk"
  ELSE IF r.total_orders > 1 THEN "regular"
  ELSE IF r.total_spent > VipSpent \/ r.total_orders > VipOrders THEN "vip"
  ELSE "new"

\* classify_segment (lines 257-269): an if/elif chain
classify_segment(r) ==
  IF r.total_orders = 0 THEN "new"
  ELSE IF r.days_since_last_order > ChurnedDays THEN "churned"
  ELSE IF r.days_since_last_order > AtRiskDays THEN "at_risk"
  ELSE IF r.total_spent > VipSpent \/ r.total_orders > VipOrders THEN "vip"
  ELSE IF r.total_orders > 1 THEN "regular"
  ELSE "new"

\* summary.apply(classify_segment, axis=1) on one row (line 271)
apply_classify_segment ==
  /\ customer_segment = "none"
  /\ customer_segment' = classify_segment(row)
  /\ UNCHANGED <<row, epc, df_daily, source_idle, target_idle, target_taken,
                 load_calls, written, daily_sales_summary, runs>>

\* ------------------------------------- specification: classify_segment
\* values on both sides of every threshold
OrderSamples == {0, 1, 2, VipOrders, VipOrders + 1, VipOrders + 5}

DaySamples == {10, AtRiskDays, AtRiskDays + 1, ChurnedDays, ChurnedDays + 1}

SpentSamples == {0, VipSpent, VipSpent + 1, VipSpent + 1000}

InitSegment ==
  /\ InitManagers({"MCM"}, {<<>>}) /\ pool_reset_session
  /\ InitQueryMetrics /\ InitDatabaseQuery /\ InitHealthChecker
  /\ row \in [total_orders : OrderSamples, days_since_last_order : DaySamples,
              total_spent : SpentSamples]
  /\ InitPipeline

NextSegment ==
  apply_classify_segment
    /\ UNCHANGED <<poolVars, txnVars, metricVars, queryVars, healthVars, loadVars>>

SpecSegment == InitSegment /\ [][NextSegment]_vars

\* C19: classify_segment returns, for every row, the label of the first rule
\* that matches in the order: no orders -> new; more than 365 days since the
\* last order -> churned; more than 180 days -> at_risk; more than 5000 spent or
\* more than 20 orders -> vip; more than one order -> regular; otherwise new.
C19_FirstMatchingRule ==
  customer_segment # "none" =>
    customer_segment =
      CASE row.total_orders = 0 -> "new"
        [] row.total_orders # 0 /\ row.days_since_last_order > 365 -> "churned"
        [] row.total_orders # 0 /\ row.days_since_last_order \in 181..365 -> "at_risk"
        [] row.total_orders # 0 /\ row.days_since_last_order <= 180
             /\ (row.total_spent > 5000 \/ row.total_orders > 20) -> "vip"
        [] row.days_since_last_order <= 180 /\ row.total_spent <= 5000
             /\ row.total_orders \in 2..20 -> "regular"
        [] OTHER -> "new"

\* 25 orders, 6000 spent, last order 10 days ago: vip
C19_Witness ==
  /\ row = [total_orders |-> 25, days_since_last_order |-> 10, total_spent |-> 6000]
  /\ customer_segment = "vip"

\* ------------------------- MySQLETLPipeline.run_daily_sales_summary_etl
\* calls of run_daily_sales_summary_etl, one per date
MaxRuns == 4

\* the extract query filters on one date and groups by it: no row or one
ExtractRows == {0, 1}

\* the run is entered (lines 404-414): a new date, nothing extracted yet
etl_start ==
  /\ epc \in {"idle", "returned", "raised"}
  /\ runs < MaxRuns
  /\ runs' = runs + 1
  /\ epc' = "extract"
  /\ df_daily' = NoneVal
  /\ target_taken' = 0
  /\ load_calls' = 0
  /\ written' = 0
  /\ UNCHANGED <<row, customer_segment, source_idle, target_idle, daily_sales_summary>>

\* extract_data enters get_connection('source') (lines 182, 144-155): a
\* connection leaves source_pool; an Error while the audit variables are set
\* closes it again and ends the run (lines 159-165, 186-188, 456-458)
etl_extract_begin(fails) ==
  /\ epc = "extract"
  /\ source_idle > 0
  /\ IF fails
       THEN epc' = "raised" /\ UNCHANGED source_idle
       ELSE epc' = "read" /\ source_idle' = source_idle - 1
  /\ UNCHANGED <<row, customer_segment, df_daily, target_idle, target_taken, load_calls,
                 written, daily_sales_summary, runs>>

\* pd.read_sql and the end of the with block (lines 183-185, 164-165): the
\* connection is back in source_pool, and the rows are bound to df_daily
\* (line 438) unless the read raised
etl_extract_end(fails, rows) ==
  /\ epc = "read"
  /\ source_idle' = source_idle + 1
  /\ IF fails
       THEN epc' = "raised" /\ UNCHANGED df_daily
       ELSE epc' = "extracted" /\ df_daily' = rows
  /\ UNCHANGED <<row, customer_segment, target_idle, target_taken, load_calls,
                 written, daily_sales_summary, runs>>

\* the emptiness test never holds
Empty_never(n) == FALSE

\* df_daily.empty
Empty(n) == n = 0

\* lines 440-442: an empty extract ends the run with a plain return
etl_check_empty ==
  /\ epc = "extracted"
  /\ epc' = IF Empty(df_daily) THEN "returned" ELSE "load"
  /\ UNCHANGED <<row, customer_segment, df_daily, source_idle, target_idle, target_taken,
                 load_calls, written, daily_sales_summary, runs>>

\* load_data is called (line 452) and enters get_connection('target')
\* (lines 299, 146-155)
etl_load_begin(fails) ==
  /\ epc = "load"
  /\ target_idle > 0
  /\ load_calls' = load_calls + 1
  /\ target_taken' = target_taken + 1
  /\ IF fails
       THEN epc' = "raised" /\ UNCHANGED target_idle
       ELSE epc' = "upsert" /\ target_idle' = target_idle - 1
  /\ UNCHANGED <<row, customer_segment, df_daily, source_idle, written,
                 daily_sales_summary, runs>>

\* _upsert_data (lines 311-313, 323-356): the rows are sent with executemany;
\* an exception ends the with block, which closes the connection
etl_upsert(fails) ==
  /\ epc = "upsert"
  /\ IF fails
       THEN epc' = "raised" /\ target_idle' = target_idle + 1 /\ UNCHANGED written
       ELSE epc' = "commit" /\ written' = written + df_daily /\ UNCHANGED target_idle
  /\ UNCHANGED <<row, customer_segment, df_daily, source_idle, target_taken, load_calls,
                 daily_sales_summary, runs>>

\* connection.commit() (line 315), the end of the with block and the return of
\* the run; a failing commit persists nothing
etl_commit(fails) ==
  /\ epc = "commit"
  /\ target_idle' = target_idle + 1
  /\ IF fails
       THEN epc' = "raised" /\ UNCHANGED daily_sales_summary
       ELSE epc' = "returned" /\ daily_sales_summary' = daily_sales_summary \cup {runs}
  /\ UNCHANGED <<row, customer_segment, df_daily, source_idle, target_taken, load_calls,
                 written, runs>>

\* ----------------------- specification: run_daily_sales_summary_etl
InitDailySales ==
  /\ InitManagers({"MCM"}, {<<>>}) /\ pool_reset_session
  /\ InitQueryMetrics /\ InitDatabaseQuery /\ InitHealthChecker
  /\ InitETL

NextDailySales ==
  \/ etl_start /\ UNCHANGED <<poolVars, txnVars, metricVars, queryVars, healthVars, loadVars>>
  \/ \E fails \in BOOLEAN :
       etl_extract_begin(fails)
         /\ UNCHANGED <<poolVars, txnVars, metricVars, queryVars, healthVars, loadVars>>
  \/ \E fails \in BOOLEAN, rows \in ExtractRows :
       etl_extract_end(fails, rows)
         /\ UNCHANGED <<poolVars, txnVars, metricVars, queryVars, healthVars, loadVars>>
  \/ etl_check_empty /\ UNCHANGED <<poolVars, txnVars, metricVars, queryVars, healthVars, loadVars>>
  \/ \E fails \in BOOLEAN :
       etl_load_begin(fails)
         /\ UNCHANGED <<poolVars, txnVars, metricVars, queryVars, healthVars, loadVars>>
  \/ \E fails \in BOOLEAN :
       etl_upsert(fails) /\ UNCHANGED <<poolVars, txnVars, metricVars, queryVars, healthVars, loadVars>>
  \/ \E fails \in BOOLEAN :
       etl_commit(fails) /\ UNCHANGED <<poolVars, txnVars, metricVars, queryVars, healthVars, loadVars>>

SpecDailySales == InitDailySales /\ [][NextDailySales]_vars

\* C20: once the extract step of a run has returned zero rows, the run only
\* returns normally: it does not raise, load_data is not called, no connection
\* is taken from the target pool and no row is written for its date.
C20_EmptyExtractSkipsLoad ==
  df_daily = 0 =>
    /\ epc \in {"extracted", "returned"}
    /\ load_calls = 0
    /\ target_taken = 0
    /\ target_idle = TargetPoolSize
    /\ written = 0
    /\ runs \notin daily_sales_summary

\* a run with an empty extract has returned, after an earlier run loaded a row
C20_Witness ==
  /\ epc = "returned" /\ df_daily = 0
  /\ runs = 2
  /\ daily_sales_summary = {1}

\* ---------------------------- MySQLETLPipeline.run_customer_summary_etl
\* the run continues with the load although the frame was never transformed
AfterExtract_skip_transform(n) == IF Empty(n) THEN "returned" ELSE "load"

\* lines 386-391: an empty extract ends the run, anything else is transformed
AfterExtract(n) == IF Empty(n) THEN "returned" ELSE "transform"

customer_check_empty ==
  /\ epc = "extracted"
  /\ epc' = AfterExtract(df_daily)
  /\ UNCHANGED <<row, customer_segment, df_daily, source_idle, target_idle, target_taken,
                 load_calls, written, daily_sales_summary, runs>>

\* transform_order_summary (lines 391, 235-281): pure, on the extracted frame;
\* an exception is logged and re-raised (lines 279-281, 400-402)
customer_transform(fails) ==
  /\ epc = "transform"
  /\ epc' = IF fails THEN "raised" ELSE "load"
  /\ UNCHANGED <<row, customer_segment, df_daily, source_idle, target_idle, target_taken,
                 load_calls, written, daily_sales_summary, runs>>

\* ------------------------- specification: run_customer_summary_etl
\* rows of customers joined with their orders
CustomerRows == {0, 1, 2}

\* the run extracts with extract_data and loads with load_data(.., 'upsert')
\* like the daily sales run; its frame is held in df_daily and its target
\* table in daily_sales_summary
NextCustomerSummary ==
  \/ etl_start /\ UNCHANGED <<poolVars, txnVars, metricVars, queryVars, healthVars, loadVars>>
  \/ \E fails \in BOOLEAN :
       etl_extract_begin(fails)
         /\ UNCHANGED <<poolVars, txnVars, metricVars, queryVars, healthVars, loadVars>>
  \/ \E fails \in BOOLEAN, rows \in CustomerRows :
       etl_extract_end(fails, rows)
         /\ UNCHANGED <<poolVars, txnVars, metricVars, queryVars, healthVars, loadVars>>
  \/ customer_check_empty
       /\ UNCHANGED <<poolVars, txnVars, metricVars, queryVars, healthVars, loadVars>>
  \/ \E fails \in BOOLEAN :
       customer_transform(fails)
         /\ UNCHANGED <<poolVars, txnVars, metricVars, queryVars, healthVars, loadVars>>
  \/ \E fails \in BOOLEAN :
       etl_load_begin(fails)
         /\ UNCHANGED <<poolVars, txnVars, metricVars, queryVars, healthVars, loadVars>>
  \/ \E fails \in BOOLEAN :
       etl_upsert(fails) /\ UNCHANGED <<poolVars, txnVars, metricVars, queryVars, healthVars, loadVars>>
  \/ \E fails \in BOOLEAN :
       etl_commit(fails) /\ UNCHANGED <<poolVars, txnVars, metricVars, queryVars, healthVars, loadVars>>

SpecCustomerSummary == InitDailySales /\ [][NextCustomerSummary]_vars

\* the stage of the pipeline a position of the run belongs to
Stage(p) ==
  CASE p \in {"idle", "returned"} -> "Idle"
    [] p \in {"extract", "read", "extracted"} -> "Extracting"
    [] p = "transform" -> "Transforming"
    [] p \in {"load", "upsert", "commit"} -> "Loading"
    [] p = "raised" -> "Failed"

MaxRowsLoaded == 2

\* a row is <<key, value>>: the table's unique key and one other column
Keys == {1, 2}

Vals == {1, 2}

RowSeqs == UNION {[1..n -> Keys \X Vals] : n \in 0..MaxRowsLoaded}

\* tables the unique key allows
TableStates == {t \in SUBSET (Keys \X Vals) : \A a, b \in t : a[1] = b[1] => a = b}

\* the table and the columns of the calls
TargetTable == "daily_sales_summary"

Columns == <<"summary_date", "total_orders">>

\* batch_size of _upsert_data (config) and of batch_insert (argument)
BatchSizes == {1, 2}

\* the calls: load_data with its load_method (only 'upsert' reads batch_size),
\* batch_insert without and with on_duplicate_update, bulk_insert
Variants ==
  [impl : {"load_data"}, method : {"replace", "append"}, batch_size : {0}]
    \cup [impl : {"load_data"}, method : {"upsert"}, batch_size : BatchSizes]
    \cup [impl : {"batch_insert"}, method : {"append", "upsert"}, batch_size : BatchSizes]
    \cup [impl : {"bulk_insert"}, method : {"append"}, batch_size : {0}]

\* the statement is built with ON DUPLICATE KEY UPDATE
OnDuplicate(l) == l.method = "upsert"

\* df.to_sql(method='multi') and bulk_insert send all rows in one statement
SingleStatement(l) ==
  \/ l.impl = "bulk_insert"
  \/ l.impl = "load_data" /\ l.method \in {"replace", "append"}

Placeholders(n) == [j \in 1..n |-> "%s"]

\* the values of the first row written into the statement
StatementText_interpolated(l, data) ==
  [verb |-> "INSERT INTO", table |-> TargetTable, columns |-> Columns,
   values |-> <<ToString(data[1][1]), ToString(data[1][2])>>,
   on_duplicate |-> IF OnDuplicate(l) THEN Columns ELSE <<>>]

\* the INSERT text: batch_insert (lines 403-408), bulk_insert (lines 361-363),
\* _upsert_data (lines 338-347), and the multi-row INSERT of to_sql, which has
\* one group of placeholders per row
StatementText(l, data) ==
  [verb |-> "INSERT INTO", table |-> TargetTable, columns |-> Columns,
   values |-> IF l.impl = "load_data" /\ SingleStatement(l)
                THEN Placeholders(Len(Columns) * Len(data))
                ELSE Placeholders(Len(Columns)),
   on_duplicate |-> IF OnDuplicate(l) THEN Columns ELSE <<>>]

\* TRUNCATE TABLE (line 304) and DESCRIBE (line 330)
TableText(verb) ==
  [verb |-> verb, table |-> TargetTable, columns |-> <<>>, values |-> <<>>,
   on_duplicate |-> <<>>]

HasKey(t, k) == \E r \in t : r[1] = k

\* the old row stays next to the new one
UpsertRow_keep_old(t, r) == t \cup {r}

\* INSERT ... ON DUPLICATE KEY UPDATE col = VALUES(col) for one row
UpsertRow(t, r) == {x \in t : x[1] # r[1]} \cup {r}

\* one statement over the rows of data: a plain INSERT fails as a whole on a
\* key that exists (or occurs twice in data)
RECURSIVE ExecuteMany(_, _, _)
ExecuteMany(t, data, on_duplicate) ==
  IF data = <<>> THEN [ok |-> TRUE, t |-> t]
  ELSE IF on_duplicate
    THEN ExecuteMany(UpsertRow(t, Head(data)), Tail(data), on_duplicate)
  ELSE IF HasKey(t, Head(data)[1]) THEN [ok |-> FALSE, t |-> t]
  ELSE ExecuteMany(t \cup {Head(data)}, Tail(data), on_duplicate)

\* one row per statement
Chunk_row_by_row(l) == SubSeq(l.rows, l.i + 1, l.i + 1)

\* the rows of the next statement: range(i, len, batch_size) of lines 349-350
\* and 413-414, or everything at once
Chunk(l) ==
  LET n == Len(l.rows)
      size == IF SingleStatement(l) THEN n ELSE l.batch_size
      last == IF l.i + size < n THEN l.i + size ELSE n
  IN  SubSeq(l.rows, l.i + 1, last)

\* an unknown load_method is written like 'append'
ToWrite_as_append(l) == Len(l.rows)

\* how many rows the call has to write: all of them, but none in load_data
\* when load_method matches no branch of lines 302-313 (there is no else)
ToWrite(l) ==
  IF l.impl = "load_data" /\ l.method \notin {"replace", "append", "upsert"}
    THEN 0
    ELSE Len(l.rows)

\* the call raised: the exception leaves the with block, the connection is
\* rolled back or reset and closed, and what the session had written is gone
LoadRaise(where) ==
  /\ lpc' = "raised"
  /\ load' = [load EXCEPT !.failed = where]
  /\ session' = target_table

\* what the next call remembers of this one
LastSent ==
  IF \E j \in 1..Len(sent) : sent[j].params # <<>>
    THEN LET j == CHOOSE j \in 1..Len(sent) :
                    /\ sent[j].params # <<>>
                    /\ \A m \in (j + 1)..Len(sent) : sent[m].params = <<>>
         IN  [text |-> sent[j].text, first |-> sent[j].params[1]]
    ELSE last_sent

\* the call begins; batch_insert rejects an empty list (lines 394-395),
\* bulk_insert returns 0 for one (lines 357-358), the others take a connection;
\* _upsert_data first reads the table's columns (lines 329-331)
load_begin(rows) ==
  /\ lpc \in {"idle", "returned", "raised"}
  /\ load' = [load EXCEPT !.rows = rows, !.i = 0, !.failed = "none",
                          !.retry = (lpc = "returned" /\ rows = load.rows)]
  /\ last_sent' = LastSent
  /\ table_before' = target_table
  /\ session' = target_table
  /\ sent' = IF load.impl = "load_data" /\ load.method = "upsert"
               THEN <<[text |-> TableText("DESCRIBE"), params |-> <<>>]>>
               ELSE <<>>
  /\ lpc' = IF rows = <<>> /\ load.impl = "batch_insert" THEN "raised"
            ELSE IF rows = <<>> /\ load.impl = "bulk_insert" THEN "returned"
            ELSE IF load.method = "replace" THEN "truncate"
            ELSE "insert"
  /\ UNCHANGED target_table

\* the rows stay in the table
Truncated_kept(t) == t

\* TRUNCATE TABLE empties the table
Truncated(t) == {}

\* load_method 'replace': the TRUNCATE of line 304, which MySQL commits at once
load_truncate(fails) ==
  /\ lpc = "truncate"
  /\ sent' = Append(sent, [text |-> TableText("TRUNCATE TABLE"), params |-> <<>>])
  /\ IF fails
       THEN LoadRaise("truncate") /\ UNCHANGED target_table
       ELSE /\ target_table' = Truncated(target_table)
            /\ session' = Truncated(target_table)
            /\ lpc' = "insert"
            /\ UNCHANGED load
  /\ UNCHANGED <<table_before, last_sent>>

\* the next executemany (lines 353, 416; 367) or to_sql (lines 305, 310)
load_insert(fails) ==
  /\ lpc = "insert"
  /\ load.i < ToWrite(load)
  /\ LET data == Chunk(load)
         res == ExecuteMany(session, data, OnDuplicate(load))
     IN  /\ sent' = Append(sent, [text |-> StatementText(load, data), params |-> data])
         /\ IF fails \/ ~res.ok
              THEN LoadRaise("insert")
              ELSE /\ session' = res.t
                   /\ load' = [load EXCEPT !.i = @ + Len(data)]
                   /\ UNCHANGED lpc
  /\ UNCHANGED <<target_table, table_before, last_sent>>

\* connection.commit() after the last statement (lines 315, 424; 368) and the
\* return of the call
load_commit(fails) ==
  /\ lpc = "insert"
  /\ load.i = ToWrite(load)
  /\ IF fails
       THEN LoadRaise("commit") /\ UNCHANGED target_table
       ELSE /\ target_table' = session
            /\ lpc' = "returned"
            /\ UNCHANGED <<load, session>>
  /\ UNCHANGED <<table_before, sent, last_sent>>

\* ------------------------------------- specification: the insert calls
\* any table, and one of the calls made repeatedly with any rows
InitLoadOf(tables, variants) ==
  /\ InitManagers({"MCM"}, {<<>>}) /\ pool_reset_session
  /\ InitQueryMetrics /\ InitDatabaseQuery /\ InitHealthChecker
  /\ row = NoRow
  /\ customer_segment = "none"
  /\ epc = "idle"
  /\ df_daily = NoneVal
  /\ source_idle = SourcePoolSize
  /\ target_idle = TargetPoolSize
  /\ target_taken = 0
  /\ load_calls = 0
  /\ written = 0
  /\ daily_sales_summary = {}
  /\ runs = 0
  /\ target_table \in tables
  /\ session = target_table
  /\ table_before = target_table
  /\ \E v \in variants :
       load = [impl |-> v.impl, method |-> v.method, batch_size |-> v.batch_size,
               rows |-> <<>>, i |-> 0, retry |-> FALSE, failed |-> "none"]
  /\ lpc = "idle"
  /\ sent = <<>>
  /\ last_sent = NoSent

InitLoad == InitLoadOf(TableStates, Variants)

pipelineVars ==
  <<row, customer_segment, epc, df_daily, source_idle, target_idle, target_taken,
    load_calls, written, daily_sales_summary, runs>>

NextLoad ==
  \/ \E rows \in RowSeqs :
       load_begin(rows)
         /\ UNCHANGED <<poolVars, txnVars, metricVars, queryVars, healthVars, pipelineVars>>
  \/ \E fails \in BOOLEAN :
       load_truncate(fails)
         /\ UNCHANGED <<poolVars, txnVars, metricVars, queryVars, healthVars, pipelineVars>>
  \/ \E fails \in BOOLEAN :
       load_insert(fails)
         /\ UNCHANGED <<poolVars, txnVars, metricVars, queryVars, healthVars, pipelineVars>>
  \/ \E fails \in BOOLEAN :
       load_commit(fails)
         /\ UNCHANGED <<poolVars, txnVars, metricVars, queryVars, healthVars, pipelineVars>>

SpecLoad == InitLoad /\ [][NextLoad]_vars

\* the rows of a list, and the last row of the list with key k
RowsOf(rows) == {rows[j] : j \in 1..Len(rows)}

LastWithKey(rows, k) ==
  rows[CHOOSE j \in 1..Len(rows) :
         rows[j][1] = k /\ \A m \in (j + 1)..Len(rows) : rows[m][1] # k]

\* C22: after a successful load_data call, 'replace' has truncated the table
\* before its insert and the table holds exactly the loaded rows; 'append' has
\* added the loaded rows and removed or changed none; 'upsert' has overwritten
\* the rows whose key was loaded with the incoming values, inserted the new
\* keys and left the other rows alone.
C22_LoadModes ==
  (lpc = "returned" /\ load.impl = "load_data") =>
    /\ load.method = "replace" =>
         /\ target_table = RowsOf(load.rows)
         /\ sent[1].text.verb = "TRUNCATE TABLE"
         /\ \A j \in 2..Len(sent) : sent[j].text.verb = "INSERT INTO"
    /\ load.method = "append" =>
         /\ table_before \subseteq target_table
         /\ target_table = table_before \cup RowsOf(load.rows)
    /\ load.method = "upsert" =>
         target_table =
           {r \in table_before : ~HasKey(RowsOf(load.rows), r[1])}
             \cup {LastWithKey(load.rows, k) : k \in {r[1] : r \in RowsOf(load.rows)}}

\* a replace load of one row into a table that held two other rows
C22_Witness ==
  /\ lpc = "returned" /\ load.impl = "load_data" /\ load.method = "replace"
  /\ table_before = {<<1, 1>>, <<2, 1>>}
  /\ load.rows = <<<<1, 2>>>>
  /\ target_table = {<<1, 2>>}

\* C23: after a successful upsert every loaded key has exactly one row in the
\* table, holding the value of the last loaded row with that key; and a call
\* that repeats the previous successful call leaves the table as that call
\* left it.
C23_UpsertIdempotent ==
  (lpc = "returned" /\ load.method = "upsert") =>
    /\ \A k \in {r[1] : r \in RowsOf(load.rows)} :
         {r \in target_table : r[1] = k} = {LastWithKey(load.rows, k)}
    /\ load.retry => target_table = table_before

\* key 1 loaded with value 1 and then value 2, in a call repeated after it
\* had succeeded
C23_Witness ==
  /\ lpc = "returned" /\ load.method = "upsert" /\ load.retry
  /\ load.rows = <<<<1, 1>>, <<1, 2>>>>
  /\ target_table = {<<1, 2>>}

\* C24: when the insert of a chunk fails in batch_insert or in the upsert
\* load, the call fails, the chunks before it stay committed in the table and
\* the failing and later chunks are not written.
C24_CommitPerChunk ==
  ( /\ lpc = "raised" /\ load.failed = "insert"
    /\ \/ load.impl = "batch_insert"
       \/ load.impl = "load_data" /\ load.method = "upsert" ) =>
    target_table =
      ExecuteMany(table_before, SubSeq(load.rows, 1, load.i), OnDuplicate(load)).t

\* C25: the INSERT statements batch_insert, bulk_insert and _upsert_data hand
\* to the driver have the same text in every call and every chunk, whatever
\* the rows, which travel as the parameters of executemany.
C25_ParameterizedText ==
  (load.impl \in {"batch_insert", "bulk_insert"}
     \/ (load.impl = "load_data" /\ load.method = "upsert")) =>
    \A j \in 1..Len(sent) :
      /\ (sent[j].params # <<>> /\ last_sent.first # <<>>) => sent[j].text = last_sent.text
      /\ \A m \in 1..Len(sent) :
           sent[j].text.verb = sent[m].text.verb => sent[j].text = sent[m].text

\* two calls whose first rows differ have both sent their INSERT
C25_Witness ==
  /\ load.impl = "bulk_insert" /\ lpc = "returned"
  /\ last_sent.first = <<1, 1>>
  /\ Len(sent) = 1 /\ sent[1].params = <<<<2, 2>>, <<1, 2>>>>
  /\ sent[1].text = last_sent.text

\* -------------------- MySQLConnectionManager: a PoolError in the body
\* a driver call in the with block of execute_query raises pooling.PoolError,
\* which is an Error: the handler of lines 239-246 rolls back, counts and
\* re-raises it into get_connection.  In a scope opened by the first yield the
\* clause of line 158 catches it and goes on to the retry of line 163 with
\* `connection` still bound; in a scope opened by the second yield it passes
\* to the finally clause.
MCM_query_pool_error(c, q) ==
  /\ kind = "MCM" /\ pc[c] = "body" /\ op[c] = "query"
  /\ query' = Set(query, c, q)
  /\ LET k == conn[c]
         s1 == Bump(stats, "query_errors")
         l1 == log[c] \o <<EvOp("fail", k, 1), Ev("rollback", k)>>
     IN IF via[c] = "first"
          THEN /\ pending' = [pending EXCEPT ![k] = {}]
               /\ log' = Set(log, c, l1)
               /\ stats' = Bump(s1, "pool_exhaustions")
               /\ exhInc' = Set(exhInc, c, exhInc[c] + 1)
               /\ pc' = Set(pc, c, "backoff")
               /\ UNCHANGED <<idle, conn, via, result>>
          ELSE MCM_exit(c, "PoolError", "PoolError", s1, l1, {})
  /\ UNCHANGED <<kind, is_connected, pool_reset_session, committed, op, nCalls, callNo,
                 attempts, pool, reachable, fetched>>

\* ------------- specification: connections held by one execute_query
NextHeld ==
  \E c \in QueryCallers :
    \/ MCM_get_connection(c, "query") /\ UNCHANGED <<txnVars, metricVars, restVars>>
    \/ MCM_retry(c) /\ UNCHANGED <<txnVars, metricVars, restVars>>
    \/ \E st \in Statements, fetch \in {"all", "none"}, fails \in {"no", "execute"} :
         MCM_query(c, [kind |-> st.kind, rows |-> st.rows, affected |-> st.affected,
                       fetch |-> fetch], fails)
           /\ UNCHANGED <<txnVars, metricVars, appVars>>
    \/ \E st \in Statements :
         MCM_query_pool_error(c, [kind |-> st.kind, rows |-> st.rows,
                                  affected |-> st.affected, fetch |-> "all"])
           /\ UNCHANGED <<txnVars, metricVars, appVars>>

SpecHeld == InitMcmQuery /\ [][NextHeld]_vars

\* C26: a call never holds more than one pooled connection: everything a call
\* does on a connection, up to releasing or dropping it, concerns one and the
\* same connection, also when a PoolError is raised while it holds one.
C26_OneConnectionPerCall ==
  \A c \in Callers :
    Cardinality({OnConn(log[c][j]) : j \in DOMAIN log[c]} \ {NoConn}) <= 1

\* ------------------- a get_connection scope whose body leaves work behind
\* the body of a caller's own with block runs a write on the yielded
\* connection (DatabaseManager line 267, MySQLConnectionManager lines 156
\* and 165) and does not commit it
scope_execute(c) ==
  /\ pc[c] = "body" /\ op[c] = "scope"
  /\ Positions(c, {"exec"}) = {}
  /\ pending' = [pending EXCEPT ![conn[c]] = @ \cup {<<callNo[c], 1>>}]
  /\ log' = Set(log, c, Append(log[c], EvOp("exec", conn[c], 1)))
  /\ UNCHANGED <<kind, is_connected, pool_reset_session, idle, committed, pc, op, conn,
                 via, result, stats, nCalls, exhInc, attempts, callNo>>

NextScopeWork ==
  \E c \in Callers :
    \/ MCM_get_connection(c, "scope") /\ UNCHANGED <<txnVars, metricVars, restVars>>
    \/ MCM_retry(c) /\ UNCHANGED <<txnVars, metricVars, restVars>>
    \/ scope_execute(c) /\ UNCHANGED <<txnVars, metricVars, restVars>>
    \/ \E out \in BodyOutcomes : MCM_scope(c, out) /\ UNCHANGED <<txnVars, metricVars, restVars>>
    \/ \E auditOk \in BOOLEAN :
         DM_get_connection(c, "scope", auditOk) /\ UNCHANGED <<txnVars, metricVars, restVars>>
    \/ \E out \in BodyOutcomes : DM_scope(c, out) /\ UNCHANGED <<txnVars, metricVars, restVars>>

SpecScopeWork == InitPool /\ [][NextScopeWork]_vars

\* C27: when the body of a get_connection scope ends with an exception, of
\* whatever type, while work is uncommitted on the connection, the connection
\* is rolled back before it is released to the pool; also in a scope entered
\* through the retry after exhaustion.
C27_RollbackBeforeRelease ==
  \A c \in Callers :
    (Returned(c, "scope") /\ result[c] # "ok") =>
      \A e \in Positions(c, {"exec"}), r \in Positions(c, {"release"}) :
        OnConn(log[c][r]) = OnConn(log[c][e]) =>
          \E b \in Positions(c, {"rollback"}) :
            /\ OnConn(log[c][b]) = OnConn(log[c][e])
            /\ e < b /\ b < r

\* C28: an execute_query call with a fetch value that is no fetch mode sends
\* no statement to the database, leaves queries_executed and query_errors as
\* they were and leaves no uncommitted work on the connection it used.
C28_InvalidFetchRejected ==
  [][\A c \in QueryCallers :
       (pc[c] = "body" /\ op[c] = "query" /\ pc'[c] # "body"
          /\ query'[c].fetch \notin {"all", "one", "none"}) =>
         /\ \A j \in DOMAIN log'[c] : What(log'[c][j]) \notin {"exec", "fail"}
         /\ stats'["queries_executed"] = stats["queries_executed"]
         /\ stats'["query_errors"] = stats["query_errors"]
         /\ pending'[conn[c]] = {}]_vars

\* ------------- MySQLConnectionManager.stats under concurrent callers
\* `self.stats[key] += 1` reads the entry, adds one and writes it back; the
\* manager has no lock, so another thread may run between the read and the
\* write.  reg[c] holds the value caller c has read.
\* The counter a caller is about to write, by its position:
\*   store_created       connections_created (line 155)
\*   store_executed      queries_executed    (line 221)
\*   store_errors_query  query_errors        (line 240)
\*   store_errors_scope  query_errors        (line 168)
\*   store_closed        connections_closed  (line 176)
StoreKey(p) ==
  CASE p = "store_created" -> "connections_created"
    [] p = "store_executed" -> "queries_executed"
    [] p = "store_errors_query" -> "query_errors"
    [] p = "store_errors_scope" -> "query_errors"
    [] p = "store_closed" -> "connections_closed"

\* where the caller continues after the write
AfterStore(p) ==
  CASE p = "store_created" -> "body"
    [] p = "store_executed" -> "finally"
    [] p = "store_errors_query" -> "except_Error"
    [] p = "store_errors_scope" -> "finally"
    [] p = "store_closed" -> "idle"

StorePositions == {"store_created", "store_executed", "store_errors_query",
                   "store_errors_scope", "store_closed"}

\* the write of `+=`: the value read plus one, whatever the entry holds by now
Stored(s, k, read) == [s EXCEPT ![k] = read + 1]

\* execute_query enters get_connection: the pool hands out a connection
\* (line 154) and the read of connections_created (line 155)
stats_get_connection(c) ==
  /\ kind = "MCM" /\ pc[c] = "idle" /\ nCalls < MaxCalls /\ idle # <<>>
  /\ nCalls' = nCalls + 1
  /\ callNo' = Set(callNo, c, nCalls + 1)
  /\ op' = Set(op, c, "query")
  /\ via' = Set(via, c, "first")
  /\ attempts' = Set(attempts, c, 1)
  /\ exhInc' = Set(exhInc, c, 0)
  /\ result' = Set(result, c, "none")
  /\ log' = Set(log, c, <<>>)
  /\ PoolGet(c)
  /\ reg' = Set(reg, c, stats["connections_created"])
  /\ pc' = Set(pc, c, "store_created")
  /\ UNCHANGED <<kind, is_connected, pool_reset_session, pending, committed, stats, opFailed>>

\* the write that completes a `+=`
stats_store(c) ==
  /\ kind = "MCM" /\ op[c] = "query" /\ pc[c] \in StorePositions
  /\ stats' = Stored(stats, StoreKey(pc[c]), reg[c])
  /\ pc' = Set(pc, c, AfterStore(pc[c]))
  /\ UNCHANGED <<kind, is_connected, pool_reset_session, idle, pending, committed, op, conn,
                 via, result, nCalls, exhInc, attempts, log, callNo, reg, opFailed>>

\* cursor.execute of a SELECT (line 220) and the read of queries_executed
\* (line 221), or the Error it raises, the rollback (line 239) and the read of
\* query_errors (line 240)
stats_execute(c, fails) ==
  /\ kind = "MCM" /\ op[c] = "query" /\ pc[c] = "body"
  /\ IF fails
       THEN /\ log' = Set(log, c, log[c] \o <<EvOp("fail", conn[c], 1),
                                              Ev("rollback", conn[c])>>)
            /\ opFailed' = opFailed \cup {callNo[c]}
            /\ result' = Set(result, c, "Error")
            /\ reg' = Set(reg, c, stats["query_errors"])
            /\ pc' = Set(pc, c, "store_errors_query")
       ELSE /\ log' = Set(log, c, Append(log[c], EvOp("exec", conn[c], 1)))
            /\ result' = Set(result, c, "Results")
            /\ reg' = Set(reg, c, stats["queries_executed"])
            /\ pc' = Set(pc, c, "store_executed")
            /\ UNCHANGED opFailed
  /\ UNCHANGED <<kind, is_connected, pool_reset_session, idle, pending, committed, op, conn,
                 via, stats, nCalls, exhInc, attempts, callNo>>

\* the Error re-raised by execute_query (line 245) arrives in get_connection's
\* `except Error` (line 167): the read of query_errors (line 168)
stats_except_Error(c) ==
  /\ kind = "MCM" /\ op[c] = "query" /\ pc[c] = "except_Error"
  /\ reg' = Set(reg, c, stats["query_errors"])
  /\ pc' = Set(pc, c, "store_errors_scope")
  /\ UNCHANGED <<kind, is_connected, pool_reset_session, idle, pending, committed, op, conn,
                 via, result, stats, nCalls, exhInc, attempts, log, callNo, opFailed>>

\* the finally clause: connection.close() (line 175) and the read of
\* connections_closed (line 176)
stats_finally(c) ==
  /\ kind = "MCM" /\ op[c] = "query" /\ pc[c] = "finally"
  /\ PoolPut(conn[c], pending[conn[c]])
  /\ log' = Set(log, c, Append(log[c], Ev("release", conn[c])))
  /\ conn' = Set(conn, c, NoConn)
  /\ via' = Set(via, c, "none")
  /\ reg' = Set(reg, c, stats["connections_closed"])
  /\ pc' = Set(pc, c, "store_closed")
  /\ UNCHANGED <<kind, is_connected, pool_reset_session, committed, op, result, stats,
                 nCalls, exhInc, attempts, callNo, opFailed>>

\* the variables of the other specifications that these calls leave alone
statsRest ==
  <<operations, idx, last_insert_id, executed, total_queries, slow_queries, errors,
    total_execution_time, query_history, lock, mpc, arg, snap, nRecords, nFailed, views,
    restVars>>

\* --------------------------- specification: concurrent statistics
\* as many callers as connections: the pool is never found exhausted
NextStatsRace ==
  \E c \in QueryCallers :
    \/ stats_get_connection(c) /\ UNCHANGED statsRest
    \/ stats_store(c) /\ UNCHANGED statsRest
    \/ \E fails \in BOOLEAN : stats_execute(c, fails) /\ UNCHANGED statsRest
    \/ stats_except_Error(c) /\ UNCHANGED statsRest
    \/ stats_finally(c) /\ UNCHANGED statsRest

SpecStatsRace == InitMcmQuery /\ [][NextStatsRace]_vars

\* C29: once every execute_query call has returned, queries_executed is the
\* number of statements that executed successfully, connections_created the
\* number of connections handed out and connections_closed the number
\* returned, whatever the interleaving of the callers.
C29_NoLostUpdate ==
  (\A c \in Callers : pc[c] = "idle") =>
    /\ stats["queries_executed"] = nCalls - Cardinality(opFailed)
    /\ stats["connections_created"] = nCalls
    /\ stats["connections_closed"] = nCalls

\* ------------------- DatabaseOperations.create_user_with_profile
\* lines 497-503: the user id when execute_transaction returned True, None
\* when it returned False; an exception of execute_transaction passes through
create_user_with_profile(res) ==
  CASE res = "True" -> "user_id"
    [] res = "False" -> "None"
    [] OTHER -> res

\* C31: MySQLConnectionManager.execute_transaction always returns: True when
\* every operation executed and the commit completed, False after a rollback
\* in every other case, failures of connection acquisition included; and
\* create_user_with_profile returns None when the transaction did not commit.
C31_TransactionReturnsBool ==
  \A c \in TxnCallers :
    (kind = "MCM" /\ Returned(c, "txn")) =>
      /\ result[c] \in {"True", "False"}
      /\ result[c] = "True" <=>
           /\ Cardinality(Positions(c, {"exec"})) = Len(operations)
           /\ Positions(c, {"commit"}) # {} /\ Positions(c, {"rollback"}) = {}
      /\ result[c] = "False" => Positions(c, {"rollback"}) # {}
      /\ result[c] # "True" => create_user_with_profile(result[c]) = "None"

\* C32: when DatabaseManager.execute_transaction cannot acquire a connection
\* (its call did nothing on any connection), the caller receives the
\* acquisition error itself: the handler neither fails nor rolls back.
C32_AcquisitionErrorPropagates ==
  \A c \in TxnCallers :
    (kind = "DM" /\ Returned(c, "txn") /\ Positions(c, {"start", "release"}) = {}) =>
      /\ result[c] \in {"PoolError", "RuntimeError"}
      /\ Positions(c, {"rollback"}) = {}

\* ------------------------------ specification: batch_insert's chunks
\* rows of the list handed to one batch_insert call
MaxBatchRows == 3

BatchRowSeqs == UNION {[1..n -> Keys \X {1}] : n \in 0..MaxBatchRows}

\* batch_insert with on_duplicate_update, so that any list can be inserted
BatchVariants ==
  [impl : {"batch_insert"}, method : {"upsert"}, batch_size : BatchSizes]

InitBatch == InitLoadOf({{}}, BatchVariants)

NextBatch ==
  \/ \E rows \in BatchRowSeqs :
       load_begin(rows)
         /\ UNCHANGED <<poolVars, txnVars, metricVars, queryVars, healthVars, pipelineVars>>
  \/ \E fails \in BOOLEAN :
       load_insert(fails)
         /\ UNCHANGED <<poolVars, txnVars, metricVars, queryVars, healthVars, pipelineVars>>
  \/ \E fails \in BOOLEAN :
       load_commit(fails)
         /\ UNCHANGED <<poolVars, txnVars, metricVars, queryVars, healthVars, pipelineVars>>

SpecBatch == InitBatch /\ [][NextBatch]_vars

\* the rows of the statements sent so far, in the order they were sent
RECURSIVE SentRows(_)
SentRows(q) == IF q = <<>> THEN <<>> ELSE Head(q).params \o SentRows(Tail(q))

\* C33: batch_insert sends the rows as consecutive chunks in list order: the
\* chunks sent so far make up a prefix of the list, none has more than
\* batch_size rows and every chunk but the last has exactly batch_size; a call
\* that succeeded has sent every row once, in ceil(n / batch_size) chunks; a
\* call with an empty list raises before anything is sent.
C33_ChunkPartition ==
  load.impl = "batch_insert" =>
    LET n == Len(load.rows)
        b == load.batch_size
        all == SentRows(sent)
    IN  /\ Len(all) <= n /\ all = SubSeq(load.rows, 1, Len(all))
        /\ \A j \in 1..Len(sent) :
             /\ Len(sent[j].params) <= b
             /\ (j < Len(sent) \/ Len(all) < n) => Len(sent[j].params) = b
        /\ lpc = "returned" =>
             /\ n > 0
             /\ all = load.rows
             /\ Len(sent) = (n + b - 1) \div b
        /\ n = 0 => (lpc \in {"idle", "raised"} /\ sent = <<>>)

\* three rows in chunks of two: a full chunk and a last one of one row
C33_Witness ==
  /\ load.impl = "batch_insert" /\ lpc = "returned"
  /\ Len(load.rows) = 3 /\ load.batch_size = 2
  /\ Len(sent) = 2 /\ Len(sent[2].params) = 1

\* ------------------------------------------- check_connection_pool
\* thresholds of check_connection_pool, in percent
UtilizationWarning == 80

UtilizationCritical == 95

\* lines 61-65, for the utilization computed in line 59
PoolUtilizationStatus(utilization) ==
  LET s1 == IF utilization > UtilizationWarning THEN "warning" ELSE "healthy"
  IN  IF utilization > UtilizationCritical THEN "critical" ELSE s1

\* C34: the connection_pool entry of a report carries the classification of
\* the pool's utilization: healthy up to 80%, warning above 80% and up to 95%,
\* critical above 95%.
C34_PoolUtilization ==
  \A i \in DOMAIN health_status.checks :
    health_status.checks[i][1] = "connection_pool" =>
      \E utilization \in 0..100 :
        health_status.checks[i][2] = PoolUtilizationStatus(utilization)

\* ------------------- specification: None parameters in any position
\* operations with None in every position or in the last one, or with no
\* None; generating no id or id 7
NullWorkloads ==
  Workloads([params : {<<NoneVal, NoneVal>>, <<5, NoneVal>>, <<5>>}, lastrowid : {0, 7}])

InitNulls == InitManagers({"MCM"}, NullWorkloads) /\ InitQueryMetrics /\ InitRest

NextNulls ==
  \/ MCM_get_connection(1, "txn") /\ TxnReset(1) /\ UNCHANGED <<metricVars, restVars>>
  \/ MCM_txn_start(1) /\ UNCHANGED <<metricVars, restVars>>
  \/ \E fails \in BOOLEAN : MCM_txn_execute(1, fails) /\ UNCHANGED <<metricVars, restVars>>
  \/ \E fails \in BOOLEAN : MCM_txn_commit(1, fails) /\ UNCHANGED <<metricVars, restVars>>

SpecNulls == InitNulls /\ [][NextNulls]_vars

\* an operation before the j-th has generated a non-zero id
IdGeneratedBefore(j) == \E i \in 1..(j - 1) : operations[i].lastrowid # 0

\* C35: once an earlier operation of the transaction has generated a non-zero
\* id, no None reaches the database: every None parameter of a later
\* operation, in whatever position, is executed as a generated id and the
\* other parameters as given; before that, parameters are executed as given,
\* None included.
C35_EveryNoneIsPlaceholder ==
  \A c \in Callers :
    (kind = "MCM" /\ op[c] = "txn") =>
      \A j \in DOMAIN executed[c] :
        /\ DOMAIN executed[c][j] = DOMAIN operations[j].params
        /\ \A p \in DOMAIN executed[c][j] :
             IF IdGeneratedBefore(j)
               THEN /\ executed[c][j][p] # NoneVal
                    /\ operations[j].params[p] # NoneVal =>
                         executed[c][j][p] = operations[j].params[p]
                    /\ operations[j].params[p] = NoneVal =>
                         \E i \in 1..(j - 1) : executed[c][j][p] = operations[i].lastrowid
               ELSE executed[c][j][p] = operations[j].params[p]

\* a None before any id was generated went out as NULL, and both None
\* parameters of the next operation went out as the id 7
C35_Witness ==
  /\ operations = <<[params |-> <<5, NoneVal>>, lastrowid |-> 7],
                    [params |-> <<NoneVal, NoneVal>>, lastrowid |-> 0]>>
  /\ executed[1] = << <<5, NoneVal>>, <<7, 7>> >>
  /\ result[1] = "True"

\* ------------------- specification: the counters and a full history
\* fast successful queries until the history is nearly full, then MaxRecords
\* calls with any arguments, which fill it and push the oldest entries out
WarmCalls == HistoryCap - 2

NextHistory ==
  \E t \in Callers :
    \/ nRecords < WarmCalls /\ record_query(t, 1, TRUE, WarmCalls)
         /\ UNCHANGED <<poolVars, txnVars, restVars>>
    \/ \E execution_time \in ExecTimes, success \in BOOLEAN :
         nRecords >= WarmCalls
           /\ record_query(t, execution_time, success, WarmCalls + MaxRecords)
           /\ UNCHANGED <<poolVars, txnVars, restVars>>
    \/ record_step(t) /\ UNCHANGED <<poolVars, txnVars, restVars>>

SpecHistory == InitMetrics /\ [][NextHistory]_vars

\* the entries of the history for which P holds; the entries pushed out are
\* among the first WarmCalls, which were fast and successful
SlowRecorded == {j \in DOMAIN query_history :
                   query_history[j].execution_time > SlowQueryThreshold}

FailedRecorded == {j \in DOMAIN query_history : ~query_history[j].success}

\* C36: whenever the lock is free, 0 <= errors <= total_queries,
\* 0 <= slow_queries <= total_queries and the history holds
\* min(total_queries, 100) entries; slow_queries counts exactly the recorded
\* calls whose execution_time was above the threshold, successful or not; and
\* no step ever decreases total_queries, errors or slow_queries.
C36_CounterInvariants ==
  /\ [](lock = NoThread =>
          /\ 0 <= errors /\ errors <= total_queries
          /\ 0 <= slow_queries /\ slow_queries <= total_queries
          /\ Len(query_history) =
               (IF total_queries < HistoryCap THEN total_queries ELSE HistoryCap)
          /\ slow_queries = Cardinality(SlowRecorded)
          /\ errors = Cardinality(FailedRecorded))
  /\ [][ /\ total_queries' >= total_queries
         /\ errors' >= errors
         /\ slow_queries' >= slow_queries
         /\ slow_queries' # slow_queries =>
              /\ slow_queries' = slow_queries + 1
              /\ lock # NoThread
              /\ arg[lock].execution_time > SlowQueryThreshold ]_vars

\* 102 calls have returned: the history is full, a failed slow query, a
\* failed fast one and a successful slow one are among them
C36_Witness ==
  /\ lock = NoThread
  /\ total_queries = HistoryCap + 2 /\ Len(query_history) = HistoryCap
  /\ errors = 2 /\ slow_queries = 2
  /\ \E j \in FailedRecorded : j \notin SlowRecorded
  /\ \E j \in FailedRecorded : j \in SlowRecorded

\* ---------------------------------------------- DatabaseManager.close
\* is_connected after close() (lines 551-555), given self.pool before it
ConnectedAfterClose_kept(p, connected) == connected

ConnectedAfterClose(p, connected) == IF p = "Pool" THEN FALSE ELSE connected

\* close (lines 549-556), called by any thread at any time.  The pool object
\* lives on in the connections leased from it: a scope that is open goes on
\* and its connection.close() queues the connection as before.  The log of an
\* open scope notes that the manager was closed meanwhile.
DM_close ==
  /\ kind = "DM"
  /\ pool' = (IF pool = "Pool" THEN "None" ELSE pool)
  /\ is_connected' = ConnectedAfterClose(pool, is_connected)
  /\ log' = [c \in Callers |->
               IF pool = "Pool" /\ pc[c] = "body"
                 THEN Append(log[c], Ev("close", NoConn)) ELSE log[c]]
  /\ UNCHANGED <<kind, pool_reset_session, idle, pending, committed, pc, op, conn, via,
                 result, stats, nCalls, exhInc, attempts, callNo>>
  /\ UNCHANGED <<reachable, query, fetched>>

\* --------------------------------------- specification: manager closed
\* a manager as constructed, after an initialize that built the pool and then
\* failed, or taken as initialized
InitClose ==
  /\ InitManagers({"DM"}, {<<>>})
  /\ pool \in (IF is_connected THEN {"Pool"} ELSE {"None", "Pool"})
  /\ reachable = TRUE
  /\ query = [c \in Callers |-> NoQuery]
  /\ fetched = [c \in Callers |-> NoneVal]
  /\ InitQueryMetrics /\ InitHealthChecker /\ InitETL

\* two callers: a scope can be open while the manager is closed and while
\* the other caller asks for a connection
NextClose ==
  \/ DM_close /\ UNCHANGED <<txnVars, metricVars, appVars>>
  \/ \E c \in QueryCallers :
       \/ \E auditOk \in BOOLEAN :
            DM_get_connection(c, "scope", auditOk)
              /\ UNCHANGED <<txnVars, metricVars, restVars>>
       \/ \E out \in BodyOutcomes :
            DM_scope(c, out) /\ UNCHANGED <<txnVars, metricVars, restVars>>

SpecClose == InitClose /\ [][NextClose]_vars

\* C37: get_connection on a manager that is not initialized or has been
\* closed raises RuntimeError and takes no connection; after close pool is
\* None and is_connected False, and closing again changes nothing; a scope
\* that was open when the manager was closed releases its connection, so that
\* every connection is idle or held by an open scope.
C37_ClosedManager ==
  /\ [](/\ pool = "None" => ~is_connected
        /\ Len(idle) + Cardinality({c \in Callers : conn[c] # NoConn}) = PoolSize
        /\ \A c \in Callers :
             /\ pc[c] = "body" <=> conn[c] # NoConn
             /\ (Returned(c, "scope") /\ Positions(c, {"close"}) # {}) =>
                  Positions(c, {"release"}) # {}
             /\ (Returned(c, "scope") /\ result[c] = "RuntimeError") =>
                  attempts[c] = 0 /\ log[c] = <<>>)
  /\ [][ /\ \A c \in Callers :
              (pc[c] = "idle" /\ nCalls' # nCalls /\ callNo'[c] # callNo[c]) =>
                IF is_connected
                  THEN result'[c] # "RuntimeError"
                  ELSE /\ result'[c] = "RuntimeError" /\ pc'[c] = "idle"
                       /\ idle' = idle /\ conn' = conn
         /\ (pool = "None" /\ nCalls' = nCalls /\ pc' = pc) => UNCHANGED vars ]_vars

\* the manager was closed while a scope was open; that scope has released its
\* connection since, and a later call was refused
C37_Witness ==
  /\ pool = "None" /\ ~is_connected /\ Len(idle) = PoolSize
  /\ \E c, d \in Callers :
       /\ Returned(c, "scope") /\ result[c] = "ok"
       /\ \E k \in Conns : log[c] = <<Ev("close", NoConn), Ev("release", k)>>
       /\ Returned(d, "scope") /\ result[d] = "RuntimeError"
       /\ callNo[d] > callNo[c]

\* ------------------------- get_connection: the audit-context statements
\* DatabaseManager.get_connection runs four SET @audit_* statements (lines
\* 260-265), MySQLETLPipeline.get_connection three (lines 151-155); apart from
\* DatabaseManager's is_connected test the two generators are the same code.
\* kind "ETL" stands for the pipeline.
AuditStatements(m) == IF m = "DM" THEN 4 ELSE 3

\* the SET statements that have run when the failAt-th raises (0: none does)
AuditsRun_first_only(n, failAt) == IF failAt = 1 THEN 0 ELSE 1

AuditsRun(n, failAt) == IF failAt = 0 THEN n ELSE failAt - 1

\* get_connection up to the yield, statement by statement; when the
\* acquisition or a SET statement raises, also the except and finally clauses
audited_get_connection(c, failAt) ==
  /\ kind \in {"DM", "ETL"} /\ pc[c] = "idle" /\ nCalls < MaxCalls
  /\ failAt <= AuditStatements(kind)
  /\ nCalls' = nCalls + 1
  /\ callNo' = Set(callNo, c, nCalls + 1)
  /\ op' = Set(op, c, "scope")
  /\ via' = Set(via, c, "none")
  /\ IF ~is_connected
       THEN /\ attempts' = Set(attempts, c, 0)
            /\ result' = Set(result, c, "RuntimeError")
            /\ log' = Set(log, c, <<>>)
            /\ UNCHANGED <<idle, pending, conn, pc>>
       ELSE /\ attempts' = Set(attempts, c, 1)
            /\ IF idle = <<>>
                 THEN /\ result' = Set(result, c, "PoolError")
                      /\ log' = Set(log, c, <<>>)
                      /\ UNCHANGED <<idle, pending, conn, pc>>
                 ELSE LET k == Head(idle)
                          ran == [j \in 1..AuditsRun(AuditStatements(kind), failAt) |->
                                    EvOp("audit", k, j)]
                      IN  IF failAt = 0
                            THEN /\ PoolGet(c)
                                 /\ log' = Set(log, c, ran)
                                 /\ pc' = Set(pc, c, "body")
                                 /\ result' = Set(result, c, "none")
                                 /\ UNCHANGED pending
                            ELSE /\ idle' = Append(Tail(idle), k)
                                 /\ pending' = [pending EXCEPT ![k] = {}]
                                 /\ log' = Set(log, c, ran \o <<EvOp("fail", k, failAt),
                                                                Ev("rollback", k),
                                                                Ev("release", k)>>)
                                 /\ result' = Set(result, c, "Error")
                                 /\ UNCHANGED <<conn, pc>>
  /\ UNCHANGED <<kind, is_connected, pool_reset_session, committed, stats, exhInc>>

\* the with block ends: except Error rolls back, finally closes
audited_scope(c, out) ==
  /\ kind \in {"DM", "ETL"} /\ pc[c] = "body" /\ op[c] = "scope"
  /\ DM_exit(c, out, out, log[c], pending[conn[c]])
  /\ UNCHANGED <<kind, is_connected, pool_reset_session, committed, op, nCalls, callNo,
                 attempts>>

\* ------------------------------------ specification: audited scopes
InitAudit == InitManagers({"DM", "ETL"}, {<<>>}) /\ InitQueryMetrics /\ InitRest

\* no more callers than connections: the pool is never found exhausted
NextAudit ==
  \E c \in QueryCallers :
    \/ \E failAt \in 0..4 :
         audited_get_connection(c, failAt) /\ UNCHANGED <<txnVars, metricVars, restVars>>
    \/ scope_execute(c) /\ UNCHANGED <<txnVars, metricVars, restVars>>
    \/ \E out \in BodyOutcomes :
         audited_scope(c, out) /\ UNCHANGED <<txnVars, metricVars, restVars>>

SpecAudit == InitAudit /\ [][NextAudit]_vars

\* C38: a connection is with the caller only after every audit SET statement
\* has run on it, in order, before any statement of the caller; a call in
\* which a SET statement failed has handed out nothing: it ran no statement of
\* the caller, rolled the connection back, released it and raised the error.
C38_AuditBeforeUse ==
  \A c \in Callers :
    LET audits == Positions(c, {"audit"})
        n == AuditStatements(kind)
        last == Len(log[c])
    IN  /\ (pc[c] = "body" \/ Positions(c, {"exec"}) # {}) =>
             /\ audits = 1..n
             /\ \A j \in audits : OpIndex(log[c][j]) = j
             /\ \A j \in DOMAIN log[c] :
                  OnConn(log[c][j]) \in {NoConn, OnConn(log[c][1])}
        /\ (op[c] = "scope" /\ Positions(c, {"fail"}) # {}) =>
             /\ pc[c] = "idle" /\ conn[c] = NoConn
             /\ result[c] = "Error"
             /\ Positions(c, {"exec"}) = {}
             /\ What(log[c][last - 2]) = "fail"
             /\ log[c][last - 1] = Ev("rollback", OnConn(log[c][last]))
             /\ What(log[c][last]) = "release"
             /\ OnConn(log[c][last]) \in Range(idle) \cup {conn[d] : d \in Callers}

\* the pipeline's third SET statement failed: two had run, the connection
\* was rolled back and released
C38_Witness ==
  /\ kind = "ETL"
  /\ \E c \in Callers :
       /\ Returned(c, "scope") /\ result[c] = "Error"
       /\ \E k \in Conns :
            log[c] = <<EvOp("audit", k, 1), EvOp("audit", k, 2), EvOp("fail", k, 3),
                       Ev("rollback", k), Ev("release", k)>>

\* ------------------------- execute_query and the transaction it leaves open
\* cursor.lastrowid values tried for a write
LastRowIds == {0, 7}

\* what is committed once the with block of DatabaseManager.execute_query
\* (lines 296-308) has run: the block holds no commit call and autocommit is
\* off (line 44), so nothing is added.  done: the committed effects before;
\* p1: the session's uncommitted effects
QueryCommitted(done, p1) == done

\* the with block of DatabaseManager.execute_query (lines 296-308) runs and is
\* left.  q: the statement with fetch_all as its fetch mode and the cursor's
\* lastrowid; fails: the driver call that raises Error ("no": none does)
DM_query_statement(c, q, fails) ==
  /\ kind = "DM" /\ pc[c] = "body" /\ op[c] = "query"
  /\ query' = Set(query, c, q)
  /\ LET k == conn[c]
         p1 == pending[k] \cup (IF q.kind = "write" THEN {<<callNo[c], 1>>} ELSE {})
         l1 == Append(log[c], EvOp("exec", k, 1))
     IN CASE fails = "execute" ->
               /\ DM_exit(c, "Error", "Error", Append(log[c], EvOp("fail", k, 1)),
                          pending[k])
               /\ UNCHANGED <<fetched, committed>>
          [] fails = "fetch" /\ q.kind = "select" ->
               /\ DM_exit(c, "Error", "Error", l1, p1)
               /\ UNCHANGED <<fetched, committed>>
          [] OTHER ->
               /\ fetched' = Set(fetched, c,
                     IF q.kind = "select"
                       THEN (IF q.fetch = "all" THEN q.rows ELSE FetchOne(q.rows))
                       ELSE [affected_rows |-> Rowcount(q),
                             last_insert_id |-> q.lastrowid])
               /\ committed' = QueryCommitted(committed, p1)
               /\ DM_exit(c, "ok", "Results", l1, p1)
  /\ UNCHANGED <<kind, is_connected, pool_reset_session, op, nCalls, callNo, attempts,
                 pool, reachable>>

\* ------------------- specification: writes through execute_query
InitUncommitted == InitManagers({"DM", "MCM"}, {<<>>}) /\ InitQueryMetrics /\ InitRest

\* execute_query of either manager, every call with a connection to take
NextUncommitted ==
  \/ \E auditOk \in BOOLEAN :
       DM_get_connection(1, "query", auditOk) /\ UNCHANGED <<txnVars, metricVars, restVars>>
  \/ \E st \in Statements, fetch \in {"all", "one"}, id \in LastRowIds,
        fails \in {"no", "execute", "fetch"} :
       DM_query_statement(1, [kind |-> st.kind, rows |-> st.rows,
                              affected |-> st.affected, fetch |-> fetch,
                              lastrowid |-> id], fails)
         /\ UNCHANGED <<txnVars, metricVars, appVars>>
  \/ DM_query_finally(1, 1) /\ UNCHANGED <<txnVars, restVars>>
  \/ (pc[1] = "query_return" /\ record_step(1)) /\ UNCHANGED <<poolVars, txnVars, restVars>>
  \/ DM_query_return(1) /\ UNCHANGED <<txnVars, metricVars, restVars>>
  \/ \E c \in QueryCallers :
       \/ MCM_get_connection(c, "query") /\ UNCHANGED <<txnVars, metricVars, restVars>>
       \/ \E st \in Statements, fetch \in {"all", "one", "none"},
             fails \in {"no", "execute", "fetch", "commit"} :
            MCM_query(c, [kind |-> st.kind, rows |-> st.rows, affected |-> st.affected,
                          fetch |-> fetch], fails)
              /\ UNCHANGED <<txnVars, metricVars, appVars>>

SpecUncommitted == InitUncommitted /\ [][NextUncommitted]_vars

\* a write that caller c's execute_query call has executed without asking
\* for a commit: any write of DatabaseManager, fetch 'all' or 'one' of
\* MySQLConnectionManager
UncommittedWrite(c) ==
  /\ op[c] = "query" /\ callNo[c] > 0
  /\ Positions(c, {"exec"}) # {}
  /\ query[c].kind = "write"
  /\ kind = "MCM" => query[c].fetch \in {"all", "one"}

\* what a read on connection k sees: the committed effects and its own
\* session's
Visible(k) == committed \cup pending[k]

\* C39 as stated: execute_query never commits such a write: the call returns
\* affected_rows and last_insert_id, and the write is uncommitted at the
\* release and stays invisible to every later read on another connection.
C39_NeverVisible ==
  \A c \in Callers :
    UncommittedWrite(c) =>
      /\ Positions(c, {"commit"}) = {}
      /\ <<callNo[c], 1>> \notin committed
      /\ (kind = "DM" /\ Returned(c, "query") /\ result[c] = "Results") =>
           fetched[c] = [affected_rows |-> query[c].affected,
                         last_insert_id |-> query[c].lastrowid]

\* what does hold of such a write: the call itself never commits and the write
\* is uncommitted when the connection is released; with pool_reset_session the
\* release discards it, so no later read sees it; without, it stays in the
\* session of the pooled connection, where a later commit on that connection
\* persists it.
UncommittedAtRelease ==
  /\ [](\A c \in Callers :
          UncommittedWrite(c) =>
            /\ Positions(c, {"commit"}) = {}
            /\ conn[c] # NoConn => <<callNo[c], 1>> \notin committed
            /\ (pool_reset_session /\ conn[c] = NoConn) =>
                 \A k \in Conns : <<callNo[c], 1>> \notin Visible(k)
            /\ (kind = "DM" /\ Returned(c, "query") /\ result[c] = "Results") =>
                 fetched[c] = [affected_rows |-> query[c].affected,
                               last_insert_id |-> query[c].lastrowid])
  /\ [][\A c \in Callers :
          (conn[c] # NoConn /\ conn'[c] = NoConn /\ query'[c].kind = "write"
             /\ (kind = "MCM" => query'[c].fetch \in {"all", "one"}))
            => /\ <<callNo[c], 1>> \notin committed'
               /\ \A k \in Conns \ {conn[c]} : <<callNo[c], 1>> \notin Visible(k)']_vars

\* ------------------------ specification: load_data and its load_method
\* "other" stands for any load_method that is none of the three
LoadMethods == {"replace", "append", "other"}

LoadDataVariants == [impl : {"load_data"}, method : LoadMethods, batch_size : {0}]

InitLoadData == InitLoadOf({{}, {<<1, 1>>}}, LoadDataVariants)

NextLoadData ==
  \/ \E rows \in RowSeqs :
       load_begin(rows)
         /\ UNCHANGED <<poolVars, txnVars, metricVars, queryVars, healthVars, pipelineVars>>
  \/ \E fails \in BOOLEAN :
       load_truncate(fails)
         /\ UNCHANGED <<poolVars, txnVars, metricVars, queryVars, healthVars, pipelineVars>>
  \/ \E fails \in BOOLEAN :
       load_insert(fails)
         /\ UNCHANGED <<poolVars, txnVars, metricVars, queryVars, healthVars, pipelineVars>>
  \/ \E fails \in BOOLEAN :
       load_commit(fails)
         /\ UNCHANGED <<poolVars, txnVars, metricVars, queryVars, healthVars, pipelineVars>>

SpecLoadData == InitLoadData /\ [][NextLoadData]_vars

\* C40: load_data called with a load_method outside {replace, append, upsert}
\* sends no statement, so it writes no row and truncates nothing; nothing but
\* the commit it still makes can raise, and once that is done the call has
\* returned True with the table as it was.
C40_UnknownMethod ==
  (load.impl = "load_data" /\ load.method \notin {"replace", "append", "upsert"}) =>
    /\ sent = <<>>
    /\ target_table = table_before /\ session = table_before
    /\ lpc \in {"idle", "insert", "returned", "raised"}
    /\ lpc = "raised" => load.failed = "commit"

\* rows were passed, the table held a row, and the call has returned True
C40_Witness ==
  /\ load.impl = "load_data" /\ load.method = "other"
  /\ lpc = "returned" /\ load.failed = "none"
  /\ load.rows # <<>> /\ target_table = {<<1, 1>>}

====
